---------------------------- MODULE Spec2Model ----------------------------
(***************************************************************************)
(* A model of NomadFlow: the public-tunnel relay (nomadflow-relay), the    *)
(* worktree / terminal-session coordinator (nomadflow-core) and the        *)
(* laptop server's authentication (nomadflow-server).                      *)
(*                                                                         *)
(* Text is modelled as sequences of one-character strings, so that the     *)
(* code's validation, sanitisation and splitting are computed character by *)
(* character.  Time is an integer clock `now` (the monotonic Instant); the *)
(* code's two durations are scaled to small numbers of clock ticks.        *)
(***************************************************************************)
EXTENDS Integers, Sequences, FiniteSets, TLC

VARIABLES
    \* ---- relay (nomadflow-relay/src/main.rs) ----
    tunnels,        \* RelayState.tunnels: subdomain -> TunnelEntry
    rate_limits,    \* RelayState.rate_limits: IP -> Vec<Instant>
    relay_secret,   \* RelayState.relay_secret
    now,            \* Instant::now()
    relay_out,      \* the last request handled by the relay and its answer
    \* ---- coordinator (nomadflow-core services, nomadflow-server routes) ----
    dirs,           \* the entries of <base>/worktrees/<repo-name>/
    worktrees,      \* the linked worktrees git has registered, in list order
    branches,       \* the local branches of the repository
    session,        \* whether the tmux session exists
    windows,        \* the windows of the tmux session, in index order
    coord_out,      \* the last request handled by the coordinator and its answer
    \* ---- laptop server authentication (nomadflow-server) ----
    auth_secret,    \* settings.auth.secret
    ttyd_conns,     \* WebSocket connections open to the terminal daemon
    http_out,       \* the last request handled by the server and its answer
    http_req_body,  \* the body of that request
    http_body,      \* the body of that answer
    \* ---- WebSocket bridge (nomadflow-ws, routes/terminal.rs handle_ws) ----
    ws_rx,          \* per direction: the messages its loop took from the source
    ws_tx,          \* per direction: the messages it sent to the destination
    ws_pc,          \* per direction: where its loop stands
    ws_conns,       \* the connections of the bridge that are open
    ws_ended,       \* the bridge has returned
    \* ---- terminal client (nomadflow-tui/src/app.rs) ----
    repos_dir,      \* the server's repos directory: the names of its repositories
    tui_screen,     \* App.screen
    tui_repos,      \* App.repos
    tui_selected,   \* App.selected_index
    tui_repo,       \* App.repo
    tui_features,   \* App.features, each with the window name derived for it
    tui_requests,   \* the list-features requests that are not answered yet
    tui_app,        \* the other fields of App
    tui_tasks,      \* the other requests that are not answered yet
    tui_repos_of,   \* the server whose answer App.repos holds (history)
    tui_features_of, \* the repository whose answer App.features holds (history)
    \* ---- the server's run (nomadflow-server/src/lib.rs serve) ----
    sv_pc,          \* where serve stands
    sv_public,      \* serve's parameter `public`
    sv_cancelled,   \* the shutdown token is cancelled
    sv_ttyd,        \* the terminal daemon: the one serve spawned, or a foreign one on the port
    sv_tunnel,      \* the tunnel listener task
    sv_url,         \* connect_url
    sv_inflight,    \* HTTP requests accepted and not answered yet
    sv_bridges,     \* terminal WebSocket bridges that are open
    \* ---- the subprocesses of a request (nomadflow-core/src/shell.rs) ----
    op_out,         \* the last request: the commands it ran and its answer
    \* ---- the relay's WebSocket proxy (nomadflow-relay/src/main.rs) ----
    wp_out,         \* the last upgrade: what was offered, confirmed and negotiated
    \* ---- worktree names (nomadflow-core/src/services/git.rs) ----
    wt_entries,     \* the entries of the worktrees directory of the calls
    wt_names,       \* the names the successive calls returned
    wt_out,         \* the last call: its branch, the entries it saw, its result
    \* ---- concurrent registrations (nomadflow-relay/src/main.rs register) ----
    rg_threads,     \* per worker thread: the registration it runs and where it stands
    \* ---- concurrent feature requests (routes/features.rs, services/tmux.rs) ----
    ew_tasks,       \* per task: the request it serves and where its tmux calls stand
    \* ---- the secret of a run of serve (nomadflow-server/src/lib.rs) ----
    sv_configured,  \* settings.auth.secret as serve received it
    sv_secret,      \* settings.auth.secret after step 0
    sv_ttyd_secret, \* TtydService.secret, once the service is made
    sv_state_secret, \* AppState.settings.auth.secret, once the state is built
    \* ---- delete-feature and the file system (services/git.rs delete_feature) ----
    fs_dirs,        \* the directories that exist under <base>, each as its components
    fs_out          \* the last request and what it removed

relayVars == <<tunnels, rate_limits, relay_secret, now, relay_out>>

coordVars == <<dirs, worktrees, branches, session, windows, coord_out>>

authVars == <<auth_secret, ttyd_conns, http_out, http_req_body, http_body>>

wsVars == <<ws_rx, ws_tx, ws_pc, ws_conns, ws_ended>>

tuiVars == <<repos_dir, tui_screen, tui_repos, tui_selected, tui_repo, tui_features, tui_requests, tui_app, tui_tasks, tui_repos_of, tui_features_of>>

srvVars == <<sv_pc, sv_public, sv_cancelled, sv_ttyd, sv_tunnel, sv_url, sv_inflight, sv_bridges>>

opVars == <<op_out>>

wpVars == <<wp_out>>

nameVars == <<wt_entries, wt_names, wt_out>>

regVars == <<rg_threads>>

winVars == <<ew_tasks>>

secVars == <<sv_configured, sv_secret, sv_ttyd_secret, sv_state_secret>>

fsVars == <<fs_dirs, fs_out>>

vars == <<relayVars, coordVars, authVars, wsVars, tuiVars, srvVars, opVars, wpVars, nameVars, regVars, winVars, secVars, fsVars>>

-----------------------------------------------------------------------------
(* Bounds of the model. *)

\* The clock stops advancing at MaxTime.
MaxTime == 4
\* The one-hour rate-limit window (3600 s in the code), in clock ticks.
RATE_LIMIT_WINDOW == 2
\* The 24-hour idle time-to-live of a tunnel entry, in clock ticks.
TUNNEL_TTL == 4
\* In SpecRelay a client sends at most this many registrations per rate-limit
\* window: the first client, and the second one.
ClientBurst == 5
OtherClientBurst == 1
\* In SpecIdle a client sends at most this many registrations per rate-limit
\* window.
IdleBurst == 2
\* The worktrees directory of the repository holds at most this many entries.
MaxWorktrees == 2
\* The tmux session holds at most this many windows.
MaxWindows == 2
\* At most this many WebSocket connections to the terminal daemon are open.
MaxConns == 2
\* The repos directory holds at most this many repositories.
MaxRepos == 2
\* The terminal client has at most this many list-features requests unanswered.
MaxRequests == 2
MaxInput == 1
MaxServers == 3
\* The server has at most this many HTTP requests in flight.
MaxInflight == 2
\* At most this many terminal WebSocket bridges are open.
MaxBridges == 1
\* Each side of a bridge delivers at most this many messages.
MaxFrames == 2

-----------------------------------------------------------------------------
(* Characters and text. *)

LowerLetters == {"a","b","c","d","e","f","g","h","i","j","k","l","m",
                 "n","o","p","q","r","s","t","u","v","w","x","y","z"}
UpperLetters == {"A","B","C","D","E","F","G","H","I","J","K","L","M",
                 "N","O","P","Q","R","S","T","U","V","W","X","Y","Z"}
Digits == {"0","1","2","3","4","5","6","7","8","9"}

\* char::is_ascii_alphanumeric
IsAsciiAlphanumeric(c) == c \in LowerLetters \cup UpperLetters \cup Digits

\* n copies of the character c
Repeat(c, n) == [i \in 1..n |-> c]

UpperSeq == <<"A","B","C","D","E","F","G","H","I","J","K","L","M",
              "N","O","P","Q","R","S","T","U","V","W","X","Y","Z">>
LowerSeq == <<"a","b","c","d","e","f","g","h","i","j","k","l","m",
              "n","o","p","q","r","s","t","u","v","w","x","y","z">>
DigitSeq == <<"0","1","2","3","4","5","6","7","8","9">>

\* char::to_lowercase, on ASCII
ToLowerChar(c) ==
    IF c \in UpperLetters
    THEN LowerSeq[CHOOSE k \in DOMAIN UpperSeq : UpperSeq[k] = c]
    ELSE c

\* str::to_lowercase
ToLowercase(s) == [i \in DOMAIN s |-> ToLowerChar(s[i])]

\* str::starts_with
StartsWith(s, prefix) ==
    Len(s) >= Len(prefix) /\ SubSeq(s, 1, Len(prefix)) = prefix

\* str::strip_prefix(..).unwrap_or(s)
StripPrefix(s, prefix) ==
    IF StartsWith(s, prefix) THEN SubSeq(s, Len(prefix) + 1, Len(s)) ELSE s

\* The position of the last c in s, 0 if there is none.
LastIndexOf(s, c) ==
    IF \E i \in DOMAIN s : s[i] = c
    THEN CHOOSE i \in DOMAIN s : s[i] = c /\ \A j \in DOMAIN s : s[j] = c => j <= i
    ELSE 0

\* The position of the first c in s, 0 if there is none.
FirstIndexOf(s, c) ==
    IF \E i \in DOMAIN s : s[i] = c
    THEN CHOOSE i \in DOMAIN s : s[i] = c /\ \A j \in DOMAIN s : s[j] = c => j >= i
    ELSE 0

\* str::rsplit('/').next(): what follows the last '/'
LastSegment(s) == SubSeq(s, LastIndexOf(s, "/") + 1, Len(s))

\* The path without its trailing '/' characters.
RECURSIVE StripTrailingSlashes(_)
StripTrailingSlashes(p) ==
    IF Len(p) > 1 /\ p[Len(p)] = "/"
    THEN StripTrailingSlashes(SubSeq(p, 1, Len(p) - 1))
    ELSE p

\* Path::file_name().unwrap_or_default(): the last component, nothing for a
\* path that ends in `..` or is the root.
FileName(path) ==
    LET seg == LastSegment(StripTrailingSlashes(path))
    IN  IF seg = <<".", ".">> THEN << >> ELSE seg

\* Path::join: an absolute `name` replaces the path.
Join(path, name) ==
    IF name # << >> /\ name[1] = "/" THEN name
    ELSE IF path # << >> /\ path[Len(path)] = "/" THEN path \o name
    ELSE path \o <<"/">> \o name

\* The decimal digits of n, as format!("{}") writes them.
RECURSIVE Decimal(_)
Decimal(n) ==
    IF n < 10 THEN <<DigitSeq[n + 1]>>
    ELSE Decimal(n \div 10) \o <<DigitSeq[(n % 10) + 1]>>

-----------------------------------------------------------------------------
(* Relay: constants of the program. *)

MAX_TUNNELS_PER_IP == 3
MAX_REGISTRATIONS_PER_HOUR == 10
\* `req.port < 1024` is rejected
MIN_PORT == 1024

\* Option<String>
None == [some |-> FALSE, val |-> <<>>]
Some(s) == [some |-> TRUE, val |-> s]


\* RegisterRequest { port, secret, subdomain } arriving from client_ip
RegisterRequest(ip, port, secret, subdomain) ==
    [client_ip |-> ip, port |-> port, secret |-> secret, subdomain |-> subdomain]

\* TunnelEntry { bore_port, last_used, client_ip }
TunnelEntry(port, t, ip) == [bore_port |-> port, last_used |-> t, client_ip |-> ip]

\* The format check of a preferred subdomain: 3 to 32 characters, each
\* ASCII-alphanumeric or a hyphen, no hyphen first or last.
ValidSubdomain(preferred) ==
    ~ ( \/ Len(preferred) < 3
        \/ Len(preferred) > 32
        \/ ~ (\A i \in 1..Len(preferred) :
                 IsAsciiAlphanumeric(preferred[i]) \/ preferred[i] = "-")
        \/ preferred[1] = "-"
        \/ preferred[Len(preferred)] = "-" )

\* The six characters generate_subdomain draws come from 0-9 and a-z.
GeneratedAlphabet == Digits \cup LowerLetters

\* The number of tunnels client_ip owns when the registration arrives.
ActiveCount(t, ip) == Cardinality({k \in DOMAIN t : t[k].client_ip = ip})

\* (mutant: the quota compared with > instead of >=)
TooManyTunnels_Mutant(active_count) == active_count > MAX_TUNNELS_PER_IP

TooManyTunnels(active_count) == active_count >= MAX_TUNNELS_PER_IP

\* entry.retain(|ts| *ts > one_hour_ago)
RetainRecent(timestamps, t) ==
    SelectSeq(timestamps, LAMBDA ts : ts > t - RATE_LIMIT_WINDOW)

\* (mutant: the hourly limit compared with > instead of >=)
TooManyRegistrations_Mutant(recent_count) == recent_count > MAX_REGISTRATIONS_PER_HOUR

TooManyRegistrations(recent_count) == recent_count >= MAX_REGISTRATIONS_PER_HOUR

\* state.rate_limits.entry(client_ip).or_default()
RateEntry(rl, ip) == IF ip \in DOMAIN rl THEN rl[ip] ELSE <<>>

\* DashMap::insert / entry assignment
Put(map, k, v) == [x \in DOMAIN map \cup {k} |-> IF x = k THEN v ELSE map[x]]

\* (mutant: the owner of an existing entry is not compared)
TakenByOther_Mutant(t, preferred, ip) == FALSE

\* The preferred subdomain is a key of the map owned by another IP.
TakenByOther(t, preferred, ip) ==
    preferred \in DOMAIN t /\ t[preferred].client_ip # ip

\* (mutant: the port compared with <= instead of <)
PrivilegedPort_Mutant(port) == port <= MIN_PORT

\* if req.port < 1024 { return Err(400) }
PrivilegedPort(port) == port < MIN_PORT

(***************************************************************************)
(* register: the handler from its first check to its answer.  `generated`  *)
(* is what generate_subdomain returns if it is called.  The result holds   *)
(* the status, the subdomain of the answer and the two maps afterwards.    *)
(***************************************************************************)
RegisterOutcome(req, generated, t, rl, secret, clock) ==
    LET ip       == req.client_ip
        rejected(status, rl2) ==
            [status |-> status, subdomain |-> <<>>, tunnels |-> t, rate_limits |-> rl2]
        pruned   == Put(rl, ip, RetainRecent(RateEntry(rl, ip), clock))
        recorded == Put(pruned, ip, Append(pruned[ip], clock))
        subdomain == IF req.subdomain.some THEN req.subdomain.val ELSE generated
    IN  IF PrivilegedPort(req.port) THEN rejected(400, rl)
        ELSE IF secret # "" /\ req.secret # secret THEN rejected(401, rl)
        ELSE IF TooManyTunnels(ActiveCount(t, ip)) THEN rejected(429, rl)
        ELSE IF TooManyRegistrations(Len(pruned[ip])) THEN rejected(429, pruned)
        ELSE IF req.subdomain.some /\ ~ValidSubdomain(req.subdomain.val)
             THEN rejected(400, recorded)
        ELSE IF req.subdomain.some /\ TakenByOther(t, req.subdomain.val, ip)
             THEN rejected(409, recorded)
        ELSE [status |-> 200, subdomain |-> subdomain,
              tunnels |-> Put(t, subdomain, TunnelEntry(req.port, clock, ip)),
              rate_limits |-> recorded]

\* host.split('.').next()
RECURSIVE FirstLabel(_)
FirstLabel(host) ==
    IF host = <<>> \/ Head(host) = "." THEN <<>>
    ELSE <<Head(host)>> \o FirstLabel(Tail(host))

\* (mutant: the entry found is read, its last_used is not renewed)
ResolveTunnel_Mutant(t, host, clock) ==
    LET subdomain == FirstLabel(host)
    IN  IF subdomain \in DOMAIN t
        THEN [found |-> TRUE, subdomain |-> subdomain, bore_port |-> t[subdomain].bore_port,
              tunnels |-> t]
        ELSE [found |-> FALSE, subdomain |-> subdomain, bore_port |-> 0, tunnels |-> t]

\* resolve_tunnel: the entry found has its last_used set to now.
ResolveTunnel(t, host, clock) ==
    LET subdomain == FirstLabel(host)
    IN  IF subdomain \in DOMAIN t
        THEN [found |-> TRUE, subdomain |-> subdomain, bore_port |-> t[subdomain].bore_port,
              tunnels |-> [t EXCEPT ![subdomain].last_used = clock]]
        ELSE [found |-> FALSE, subdomain |-> subdomain, bore_port |-> 0, tunnels |-> t]

\* check: 200 if the first label of `domain` is a key of the tunnel map, 404
\* otherwise; the map is only read.
check(t, domain) == IF FirstLabel(domain) \in DOMAIN t THEN 200 ELSE 404

\* (mutant: an entry idle for exactly the time-to-live is kept)
KeepTunnel_Mutant(entry, clock) == clock - entry.last_used <= TUNNEL_TTL

\* The retain predicates of cleanup_stale_tunnels.
KeepTunnel(entry, clock) == clock - entry.last_used < TUNNEL_TTL
KeepTimestamp(ts, clock) == clock - ts < RATE_LIMIT_WINDOW

Restrict(map, keys) == [k \in keys |-> map[k]]

\* (mutant: the cleanup task prunes the rate-limit map only)
CleanupTunnels_Mutant(t, clock) == t

CleanupTunnels(t, clock) ==
    Restrict(t, {k \in DOMAIN t : KeepTunnel(t[k], clock)})

CleanupRateLimits(rl, clock) ==
    LET kept == [ip \in DOMAIN rl |-> SelectSeq(rl[ip], LAMBDA ts : KeepTimestamp(ts, clock))]
    IN  Restrict(kept, {ip \in DOMAIN kept : kept[ip] # <<>>})

-----------------------------------------------------------------------------
(* Relay: the inputs explored. *)

IP1 == "10.0.0.1"
IP2 == "10.0.0.2"
IPs == {IP1, IP2}

GoodSecret == "relay-secret"

sub_ab      == <<"a","b">>
sub_abc     == <<"a","b","c">>
sub_abc123  == <<"a","b","c","1","2","3">>
sub_Abc_123 == <<"A","b","c","-","1","2","3">>
sub_lead    == <<"-","a","b","c">>
sub_trail   == <<"a","b","c","-">>
sub_under   == <<"a","_","c">>
sub_long    == Repeat("a", 33)
sub_x7k2p9  == <<"x","7","k","2","p","9">>

\* Two of the 36^6 results of generate_subdomain.
GeneratedSubdomains == {sub_abc123, sub_x7k2p9}

Domain == <<".","t","u","n","n","e","l",".","x",".","d","e","v">>

RegisterRequests ==
    {RegisterRequest(IP1, 1023, GoodSecret, Some(sub_abc)),
     RegisterRequest(IP1, 1024, "wrong", Some(sub_abc))}
    \cup {RegisterRequest(IP1, 1024, GoodSecret, Some(sub_abc)),
          RegisterRequest(IP1, 8080, GoodSecret, Some(sub_abc)),
          RegisterRequest(IP1, 1024, GoodSecret, Some(sub_abc123))}
    \cup {RegisterRequest(IP1, 1024, GoodSecret, o) :
            o \in {None, Some(sub_ab), Some(sub_long), Some(sub_lead), Some(sub_trail),
                   Some(sub_under), Some(sub_Abc_123)}}
    \cup {RegisterRequest(IP2, 9000, GoodSecret, o) : o \in {Some(sub_abc123)}}

ProxyHosts == {s \o Domain : s \in {sub_abc, sub_abc123, sub_Abc_123, sub_x7k2p9, <<"g","h","o","s","t">>}}

-----------------------------------------------------------------------------
(* Relay: the state machine. *)

RelayInit ==
    /\ tunnels = << >>
    /\ rate_limits = << >>
    /\ relay_secret = GoodSecret
    /\ now = 0
    /\ relay_out = [op |-> "none"]

\* POST /_api/register
Register(req) ==
    \E generated \in (IF req.subdomain.some THEN {<<>>} ELSE GeneratedSubdomains) :
        LET r == RegisterOutcome(req, generated, tunnels, rate_limits, relay_secret, now)
        IN  /\ tunnels' = r.tunnels
            /\ rate_limits' = r.rate_limits
            /\ relay_out' = [op |-> "register", req |-> req, status |-> r.status,
                             subdomain |-> r.subdomain]
            /\ UNCHANGED <<relay_secret, now>>
            /\ UNCHANGED <<coordVars, authVars, wsVars, tuiVars, srvVars, opVars, wpVars, nameVars, regVars, winVars, secVars, fsVars>>

\* The fallback route: proxy_handler, up to the request sent upstream.
Proxy(host) ==
    LET r == ResolveTunnel(tunnels, host, now)
    IN  /\ tunnels' = r.tunnels
        /\ relay_out' = [op |-> "proxy", host |-> host, found |-> r.found,
                         subdomain |-> r.subdomain, bore_port |-> r.bore_port]
        /\ UNCHANGED <<rate_limits, relay_secret, now>>
        /\ UNCHANGED <<coordVars, authVars, wsVars, tuiVars, srvVars, opVars, wpVars, nameVars, regVars, winVars, secVars, fsVars>>

\* One round of the loop of cleanup_stale_tunnels.
Cleanup ==
    /\ tunnels' = CleanupTunnels(tunnels, now)
    /\ rate_limits' = CleanupRateLimits(rate_limits, now)
    /\ relay_out' = [op |-> "cleanup",
                     removed |-> Cardinality(DOMAIN tunnels)
                                   - Cardinality(DOMAIN CleanupTunnels(tunnels, now))]
    /\ UNCHANGED <<relay_secret, now>>
    /\ UNCHANGED <<coordVars, authVars, wsVars, tuiVars, srvVars, opVars, wpVars, nameVars, regVars, winVars, secVars, fsVars>>

\* GET /_api/check?domain=...
Check(domain) ==
    /\ relay_out' = [op |-> "check", domain |-> domain, status |-> check(tunnels, domain)]
    /\ UNCHANGED <<tunnels, rate_limits, relay_secret, now>>
    /\ UNCHANGED <<coordVars, authVars, wsVars, tuiVars, srvVars, opVars, wpVars, nameVars, regVars, winVars, secVars, fsVars>>

\* Time passes.
Advance(d) ==
    /\ now + d <= MaxTime
    /\ now' = now + d
    /\ UNCHANGED <<tunnels, rate_limits, relay_secret, relay_out>>
    /\ UNCHANGED <<coordVars, authVars, wsVars, tuiVars, srvVars, opVars, wpVars, nameVars, regVars, winVars, secVars, fsVars>>

\* The registrations client ip sent within the current rate-limit window.
SentInWindow(ip) == Len(RetainRecent(RateEntry(rate_limits, ip), now))

Burst(ip) == IF ip = IP1 THEN ClientBurst ELSE OtherClientBurst

\* The relay with two clients; time passes in steps of the tunnel TTL.
RelayNext ==
    \/ \E req \in RegisterRequests :
          SentInWindow(req.client_ip) < Burst(req.client_ip) /\ Register(req)
    \/ \E host \in ProxyHosts : Proxy(host)
    \/ Cleanup
    \/ Advance(TUNNEL_TTL)


\* The relay with one client that registers as often as it likes; time
\* passes tick by tick.
RateRequests ==
    {RegisterRequest(IP1, 1024, GoodSecret, Some(sub_abc)),
     RegisterRequest(IP1, 1024, GoodSecret, Some(sub_ab)),
     RegisterRequest(IP1, 1023, GoodSecret, Some(sub_abc))}

RateNext ==
    \/ \E req \in RateRequests : Register(req)
    \/ Proxy(sub_abc \o Domain)
    \/ Cleanup
    \/ Advance(1)

\* The relay watched until its entries expire: two clients register and
\* re-register one subdomain each, proxy and check requests arrive, and the
\* clock runs tick by tick to IdleHorizon, one time-to-live after the last
\* registration or proxy request that finds an entry.
IdleHorizon == RATE_LIMIT_WINDOW + TUNNEL_TTL

IdleRequests ==
    {RegisterRequest(IP1, 1024, GoodSecret, Some(sub_abc)),
     RegisterRequest(IP2, 9000, GoodSecret, Some(sub_abc123))}

IdleHosts == {sub_abc \o Domain, sub_abc123 \o Domain}

Tick ==
    /\ now < IdleHorizon
    /\ now' = now + 1
    /\ UNCHANGED <<tunnels, rate_limits, relay_secret, relay_out>>
    /\ UNCHANGED <<coordVars, authVars, wsVars, tuiVars, srvVars, opVars, wpVars, nameVars, regVars, winVars, secVars, fsVars>>

IdleNext ==
    \/ \E req \in IdleRequests :
          /\ now + TUNNEL_TTL <= IdleHorizon
          /\ SentInWindow(req.client_ip) < IdleBurst
          /\ Register(req)
    \/ \E host \in IdleHosts :
          /\ now + TUNNEL_TTL <= IdleHorizon \/ FirstLabel(host) \notin DOMAIN tunnels
          /\ Proxy(host)
    \/ \E domain \in IdleHosts : Check(domain)
    \/ Cleanup
    \/ Tick



-----------------------------------------------------------------------------
(* Relay: the claims. *)

\* The registration passes the two checks made before the quotas.
PassesPortAndSecret(req) ==
    req.port >= MIN_PORT /\ (relay_secret = "" \/ req.secret = relay_secret)

\* The registration names a subdomain that is a key of the tunnel map.
NamesExisting(req) == req.subdomain.some /\ req.subdomain.val \in DOMAIN tunnels

\* The timestamps of ip that are less than a window old / at most a window old.
YoungerThanWindow(ip) ==
    {i \in DOMAIN RateEntry(rate_limits, ip) :
        now - RateEntry(rate_limits, ip)[i] < RATE_LIMIT_WINDOW}
NotOlderThanWindow(ip) ==
    {i \in DOMAIN RateEntry(rate_limits, ip) :
        now - RateEntry(rate_limits, ip)[i] <= RATE_LIMIT_WINDOW}

AllRegisterRequests == RegisterRequests \cup RateRequests

\* C6: with registrations handled one at a time, no source IP ever owns more
\* than 3 entries of the tunnel map, and a registration that does not name an
\* existing entry, from an IP that owns 3 (and whose port and secret pass),
\* is answered 429 and leaves the tunnel map as it was.
C6_TunnelQuota ==
    /\ [](\A ip \in IPs : ActiveCount(tunnels, ip) <= MAX_TUNNELS_PER_IP)
    /\ [][\A req \in AllRegisterRequests :
            ( /\ Register(req)
              /\ PassesPortAndSecret(req)
              /\ ~NamesExisting(req)
              /\ ActiveCount(tunnels, req.client_ip) >= MAX_TUNNELS_PER_IP )
            => (relay_out'.status = 429 /\ tunnels' = tunnels)]_vars

\* C6 witness: an IP owning 3 tunnels was just refused a fourth, new subdomain.
C6_Witness ==
    /\ relay_out.op = "register"
    /\ relay_out.status = 429
    /\ relay_out.req.subdomain.some
    /\ ValidSubdomain(relay_out.req.subdomain.val)
    /\ relay_out.req.subdomain.val \notin DOMAIN tunnels
    /\ ActiveCount(tunnels, relay_out.req.client_ip) = MAX_TUNNELS_PER_IP

\* C7 as stated: while an IP has 10 timestamps none of which is more than one
\* window old, every further registration of it (port and secret passing)
\* is answered 429.
C7_AsStated ==
    [][\A req \in AllRegisterRequests :
         ( /\ Register(req)
           /\ PassesPortAndSecret(req)
           /\ Cardinality(NotOlderThanWindow(req.client_ip)) >= MAX_REGISTRATIONS_PER_HOUR )
         => relay_out'.status = 429]_vars

\* C7 amended: a timestamp counts while it is less than one window old.  An
\* IP with 10 such timestamps gets 429 for every further registration, which
\* changes no tunnel and records no timestamp; a registration is accepted
\* only when fewer than 10 count; and no window (t - W, t] ever holds more
\* than 10 timestamps of one IP.
C7_RateLimit ==
    /\ [](\A ip \in DOMAIN rate_limits : \A t \in 0..now :
            Cardinality({i \in DOMAIN rate_limits[ip] :
                            /\ t - RATE_LIMIT_WINDOW < rate_limits[ip][i]
                            /\ rate_limits[ip][i] <= t})
                <= MAX_REGISTRATIONS_PER_HOUR)
    /\ [][\A req \in AllRegisterRequests :
            /\ ( /\ Register(req)
                 /\ PassesPortAndSecret(req)
                 /\ Cardinality(YoungerThanWindow(req.client_ip)) >= MAX_REGISTRATIONS_PER_HOUR )
               => /\ relay_out'.status = 429
                  /\ tunnels' = tunnels
                  /\ Len(RateEntry(rate_limits', req.client_ip))
                        <= Len(RateEntry(rate_limits, req.client_ip))
            /\ (Register(req) /\ relay_out'.status = 200)
               => Cardinality(YoungerThanWindow(req.client_ip)) < MAX_REGISTRATIONS_PER_HOUR
       ]_vars

\* C7 witness: a registration was refused for the hourly limit alone: the IP
\* owns fewer than 3 tunnels and has 10 timestamps in the window.
C7_Witness ==
    /\ relay_out.op = "register"
    /\ relay_out.status = 429
    /\ ActiveCount(tunnels, relay_out.req.client_ip) < MAX_TUNNELS_PER_IP
    /\ Cardinality(YoungerThanWindow(relay_out.req.client_ip)) = MAX_REGISTRATIONS_PER_HOUR

\* C8: a registration naming a subdomain that another IP owns leaves that
\* entry (backend port, owner, last_used) as it was, and, when it passes the
\* checks made before the subdomain is looked at, is answered 409.
C8_TakenSubdomain ==
    [][\A req \in AllRegisterRequests :
         ( /\ Register(req)
           /\ req.subdomain.some
           /\ req.subdomain.val \in DOMAIN tunnels
           /\ tunnels[req.subdomain.val].client_ip # req.client_ip )
         => /\ req.subdomain.val \in DOMAIN tunnels'
            /\ tunnels'[req.subdomain.val] = tunnels[req.subdomain.val]
            /\ ( /\ PassesPortAndSecret(req)
                 /\ ActiveCount(tunnels, req.client_ip) < MAX_TUNNELS_PER_IP
                 /\ Cardinality(YoungerThanWindow(req.client_ip)) < MAX_REGISTRATIONS_PER_HOUR )
               => relay_out'.status = 409]_vars

\* C8 witness: a registration was answered 409 and the entry named is still
\* another IP's.
C8_Witness ==
    /\ relay_out.op = "register"
    /\ relay_out.status = 409
    /\ relay_out.req.subdomain.val \in DOMAIN tunnels
    /\ tunnels[relay_out.req.subdomain.val].client_ip # relay_out.req.client_ip

\* C9: a registration from the IP that owns the subdomain it names, with a
\* valid secret, a port >= 1024 and within the hourly limit, succeeds and
\* sets the entry's backend port to the new port, however many tunnels the
\* IP owns.
C9_ReRegistration ==
    [][\A req \in AllRegisterRequests :
         ( /\ Register(req)
           /\ NamesExisting(req)
           /\ tunnels[req.subdomain.val].client_ip = req.client_ip
           /\ PassesPortAndSecret(req)
           /\ Cardinality(YoungerThanWindow(req.client_ip)) < MAX_REGISTRATIONS_PER_HOUR )
         => /\ relay_out'.status = 200
            /\ tunnels'[req.subdomain.val].bore_port = req.port]_vars

\* C32: no registration changes the owner or the backend port of an entry
\* of the tunnel map that another IP owns, whether its subdomain was named
\* in the request or generated.
C32_ForeignEntryKept ==
    [][\A k \in DOMAIN tunnels :
         ( /\ relay_out'.op = "register"
           /\ relay_out'.req.client_ip # tunnels[k].client_ip
           /\ k \in DOMAIN tunnels' )
         => /\ tunnels'[k].client_ip = tunnels[k].client_ip
            /\ tunnels'[k].bore_port = tunnels[k].bore_port]_vars

\* The subdomain format of the data model: 3 to 32 characters of a-z, 0-9
\* and the hyphen, no hyphen first or last.
LowercaseSubdomain(s) ==
    /\ Len(s) >= 3
    /\ Len(s) <= 32
    /\ \A i \in 1..Len(s) : s[i] \in LowerLetters \cup Digits \cup {"-"}
    /\ s[1] # "-"
    /\ s[Len(s)] # "-"

\* C10: every key of the tunnel map is 3 to 32 characters long, consists of
\* lowercase letters, digits and hyphens only, and neither begins nor ends
\* with a hyphen; a requested subdomain that is not is never inserted.
C10_SubdomainFormat ==
    \A k \in DOMAIN tunnels : LowercaseSubdomain(k)

\* C11: a registration that is rejected, for whatever reason, leaves the
\* number of timestamps recorded for its IP as it was.
C11_TimestampOnlyOnSuccess ==
    [][\A req \in AllRegisterRequests :
         ( /\ relay_out'.op = "register"
           /\ relay_out'.req = req
           /\ relay_out'.status # 200
           /\ Register(req) )
         => Len(RateEntry(rate_limits', req.client_ip))
               = Len(RateEntry(rate_limits, req.client_ip))]_vars

\* C12: a registration with a port below 1024 is answered 400, one with a
\* port of at least 1024 and a secret other than the configured one is
\* answered 401, and both leave the tunnel map and the rate-limit map exactly
\* as they were; port 1023 is rejected, and with port 1024 the only 400 left
\* is the one for a malformed subdomain.
C12_PortAndSecret ==
    [][\A req \in AllRegisterRequests :
         ( /\ relay_out'.op = "register"
           /\ relay_out'.req = req
           /\ Register(req) )
         => /\ req.port < 1024
               => /\ relay_out'.status = 400
                  /\ tunnels' = tunnels
                  /\ rate_limits' = rate_limits
            /\ (req.port >= 1024 /\ relay_secret # "" /\ req.secret # relay_secret)
               => /\ relay_out'.status = 401
                  /\ tunnels' = tunnels
                  /\ rate_limits' = rate_limits
            /\ (req.port = 1024 /\ relay_out'.status = 400)
               => req.subdomain.some /\ ~ValidSubdomain(req.subdomain.val)
            /\ relay_out'.status = 401 => req.secret # relay_secret]_vars

\* C12 witness: a registration with port 1023 was refused with 400 while the
\* two maps hold entries.
C12_Witness ==
    /\ relay_out.op = "register"
    /\ relay_out.req.port = 1023
    /\ relay_out.status = 400
    /\ tunnels # << >>
    /\ rate_limits # << >>

\* C13: a run of the cleanup task removes the tunnel entries whose last_used
\* lies one time-to-live or more in the past and no other: every younger
\* entry stays as it is, no entry is added; afterwards the rate-limit map
\* holds no timestamp older than one window and no IP with an empty list.
C13_Cleanup ==
    [][(relay_out'.op = "cleanup" /\ Cleanup)
         => /\ \A k \in DOMAIN tunnels :
                  IF now - tunnels[k].last_used >= TUNNEL_TTL
                  THEN k \notin DOMAIN tunnels'
                  ELSE k \in DOMAIN tunnels' /\ tunnels'[k] = tunnels[k]
            /\ DOMAIN tunnels' \subseteq DOMAIN tunnels
            /\ \A ip \in DOMAIN rate_limits' :
                  /\ rate_limits'[ip] # << >>
                  /\ \A i \in DOMAIN rate_limits'[ip] :
                        now - rate_limits'[ip][i] <= RATE_LIMIT_WINDOW]_vars

\* C13 witness: a cleanup run removed an entry and kept another one, idle
\* for one tick less than the time-to-live.
C13_Witness ==
    /\ relay_out.op = "cleanup"
    /\ relay_out.removed > 0
    /\ \E k \in DOMAIN tunnels : now - tunnels[k].last_used = TUNNEL_TTL - 1

\* C14: an entry of the tunnel map whose last_used is no longer renewed (by
\* a proxy request or a re-registration) is eventually removed, and only the
\* cleanup task removes entries; a check or proxy request for a subdomain
\* that is not in the map is answered 404; and a check request changes no
\* entry, its last_used included.
C14_IdleEviction ==
    /\ \A k \in {sub_abc, sub_abc123} : \A t \in 0..IdleHorizon :
          (k \in DOMAIN tunnels /\ tunnels[k].last_used = t)
             ~> ~(k \in DOMAIN tunnels /\ tunnels[k].last_used = t)
    /\ [][\A d \in IdleHosts :
            /\ ~(DOMAIN tunnels \subseteq DOMAIN tunnels') => relay_out'.op = "cleanup"
            /\ (relay_out'.op = "check" /\ relay_out'.domain = d /\ Check(d))
               => /\ tunnels' = tunnels
                  /\ relay_out'.status = 404 <=> FirstLabel(d) \notin DOMAIN tunnels
            /\ ( /\ relay_out'.op = "proxy"
                 /\ relay_out'.host = d
                 /\ FirstLabel(d) \notin DOMAIN tunnels
                 /\ Proxy(d) )
               => ~relay_out'.found /\ tunnels' = tunnels]_vars

\* C14 witness: the cleanup task removed both entries in one run; none had
\* been renewed for a time-to-live.
C14_Witness ==
    /\ relay_out.op = "cleanup"
    /\ relay_out.removed = 2
    /\ tunnels = << >>

-----------------------------------------------------------------------------
(* Coordinator: the repository and its worktrees (services/git.rs).        *)
(* One repository is cloned under <base>/repos; the state of git and of    *)
(* the file system is passed to the operators as a record g.               *)

RepoPath == <<"/","b","/","r","e","p","o","s","/","d","e","m","o">>
\* GitService.worktrees_dir
WorktreesDir == <<"/","b","/","w","o","r","k","t","r","e","e","s">>
\* repo_path.file_name()
RepoName == FileName(RepoPath)
\* self.worktrees_dir.join(&repo_name)
RepoWorktreesDir == Join(WorktreesDir, RepoName)

b_main == <<"m","a","i","n">>
b_master == <<"m","a","s","t","e","r">>
b_develop == <<"d","e","v","e","l","o","p">>
b_dev == <<"d","e","v">>
b_feature_login == <<"f","e","a","t","u","r","e","/","l","o","g","i","n">>
b_fix_login == <<"f","i","x","/","l","o","g","i","n">>
b_hot_main == <<"h","o","t","/","m","a","i","n">>
n_login == <<"l","o","g","i","n">>
n_login_2 == <<"l","o","g","i","n","-","2">>

HEAD == <<"H","E","A","D">>
Origin == <<"o","r","i","g","i","n","/">>
RefsHeads == <<"r","e","f","s","/","h","e","a","d","s","/">>
FeaturePrefix == <<"f","e","a","t","u","r","e","/">>
Unknown == <<"u","n","k","n","o","w","n">>

\* The branch checked out in the repository itself; origin's HEAD and branches.
HeadBranch == b_main
OriginHead == b_main
OriginBranches == {b_main, b_dev}

Git(d, w, b) == [dirs |-> d, worktrees |-> w, branches |-> b]

\* The directory names of the linked worktrees git has registered.
Registered(g) == {g.worktrees[i].name : i \in DOMAIN g.worktrees}

\* The branches checked out in some worktree, the repository included.
CheckedOut(g) == {HeadBranch} \cup {g.worktrees[i].branch : i \in DOMAIN g.worktrees}

\* char::is_alphanumeric, on ASCII
IsAlphanumeric(c) == IsAsciiAlphanumeric(c)

sanitize_name(name) ==
    [i \in DOMAIN name |->
        IF IsAlphanumeric(name[i]) \/ name[i] \in {".", "_", "-"} THEN name[i] ELSE "-"]

\* worktrees_dir.join(name).exists(): joining the empty name gives the
\* directory itself, "." names it too and ".." names its parent.
ExistsIn(entries, name) ==
    name \in {<< >>, <<".">>, <<".", ".">>} \/ name \in entries

\* (mutant: after a collision the first suffix is taken unseen)
derive_worktree_name_Mutant(branch_name, entries) ==
    LET base == sanitize_name(LastSegment(branch_name))
    IN  IF ~ExistsIn(entries, base) THEN base ELSE base \o <<"-">> \o Decimal(2)

derive_worktree_name(branch_name, entries) ==
    LET base == sanitize_name(LastSegment(branch_name))
        suffixed(i) == base \o <<"-">> \o Decimal(i)
    IN  IF ~ExistsIn(entries, base) THEN base
        ELSE suffixed(CHOOSE i \in 2..(Cardinality(entries) + 2) :
                         /\ ~ExistsIn(entries, suffixed(i))
                         /\ \A j \in 2..(i - 1) : ExistsIn(entries, suffixed(j)))

CommonBranches == <<b_main, b_master, b_develop, b_dev>>

get_default_branch(g) ==
    IF OriginHead # << >> THEN OriginHead
    ELSE IF \E i \in DOMAIN CommonBranches : CommonBranches[i] \in g.branches
    THEN CommonBranches[CHOOSE i \in DOMAIN CommonBranches :
                            /\ CommonBranches[i] \in g.branches
                            /\ \A j \in 1..(i - 1) : CommonBranches[j] \notin g.branches]
    ELSE IF HeadBranch # << >> THEN HeadBranch
    ELSE b_main

\* A name git accepts for a branch (git check-ref-format, in part).
ValidBranchName(b) ==
    /\ b # << >>
    /\ b[1] \notin {"-", "/"}
    /\ b[Len(b)] \notin {"/", "."}
    /\ \A i \in DOMAIN b : b[i] \notin {" ", "~", "^", ":", "?", "*", "["}

\* <start> names a commit: HEAD, a local branch or a branch of origin.
ResolvesCommit(g, start) ==
    \/ start = HEAD
    \/ start \in g.branches
    \/ StartsWith(start, Origin) /\ StripPrefix(start, Origin) \in OriginBranches

\* git can create a worktree at <dir>/<name>.
PathFree(g, name) == name \notin Registered(g) /\ ~ExistsIn(g.dirs, name)

AddWorktree(g, name, branch) ==
    Git(g.dirs \cup {name},
        Append(g.worktrees, [name |-> name, branch |-> branch]),
        g.branches \cup {branch})

\* git worktree add -b <branch> <path> <start>
WorktreeAddNewBranch(g, branch, name, start) ==
    IF /\ ValidBranchName(branch)
       /\ branch \notin g.branches
       /\ ResolvesCommit(g, start)
       /\ PathFree(g, name)
    THEN [ok |-> TRUE, git |-> AddWorktree(g, name, branch)]
    ELSE [ok |-> FALSE, git |-> g]

\* git worktree add <path> <branch>: a local branch that no worktree has
\* checked out, or a branch of origin, which git then creates locally.
WorktreeAddExisting(g, branch, name) ==
    IF /\ PathFree(g, name)
       /\ \/ branch \in g.branches /\ branch \notin CheckedOut(g)
          \/ branch \notin g.branches /\ branch \in OriginBranches
    THEN [ok |-> TRUE, git |-> AddWorktree(g, name, branch)]
    ELSE [ok |-> FALSE, git |-> g]

\* GitService::create_feature; `issued` is the number of worktree-add
\* variants it ran.
create_feature(g, branch_name, base_branch) ==
    LET base == IF base_branch.some /\ base_branch.val # << >>
                THEN base_branch.val
                ELSE get_default_branch(g)
        wt_name == derive_worktree_name(branch_name, g.dirs)
        worktree_path == Join(RepoWorktreesDir, wt_name)
        r1 == WorktreeAddNewBranch(g, branch_name, wt_name, base)
        r2 == WorktreeAddExisting(g, branch_name, wt_name)
        r3 == WorktreeAddNewBranch(g, branch_name, wt_name, Origin \o base)
        r4 == WorktreeAddNewBranch(g, branch_name, wt_name, HEAD)
        Ok(gg, n) == [ok |-> TRUE, worktree_path |-> worktree_path,
                      branch |-> branch_name, git |-> gg, issued |-> n]
    IN  IF ExistsIn(g.dirs, wt_name) THEN Ok(g, 0)
        ELSE IF r1.ok THEN Ok(r1.git, 1)
        ELSE IF r2.ok THEN Ok(r2.git, 2)
        ELSE IF r3.ok THEN Ok(r3.git, 3)
        ELSE IF r4.ok THEN Ok(r4.git, 4)
        ELSE [ok |-> FALSE, worktree_path |-> << >>, branch |-> << >>,
              git |-> g, issued |-> 4]

\* GitService::attach_branch: the local branch first, then a new branch
\* tracking origin's.
attach_branch(g, branch_name) ==
    LET wt_name == derive_worktree_name(branch_name, g.dirs)
        worktree_path == Join(RepoWorktreesDir, wt_name)
        r1 == WorktreeAddExisting(g, branch_name, wt_name)
        r2 == WorktreeAddNewBranch(g, branch_name, wt_name, Origin \o branch_name)
        Ok(gg, n) == [ok |-> TRUE, worktree_path |-> worktree_path,
                      branch |-> branch_name, git |-> gg, issued |-> n]
    IN  IF r1.ok THEN Ok(r1.git, 1)
        ELSE IF r2.ok THEN Ok(r2.git, 2)
        ELSE [ok |-> FALSE, worktree_path |-> << >>, branch |-> << >>,
              git |-> g, issued |-> 2]

Feature(name, worktree_path, branch, is_main) ==
    [name |-> name, worktree_path |-> worktree_path, branch |-> branch,
     is_main |-> is_main]

\* What `git worktree list --porcelain` prints: the repository first, then
\* the linked worktrees.
WorktreeListing(g) ==
    <<[path |-> RepoPath, ref |-> RefsHeads \o HeadBranch]>>
    \o [i \in DOMAIN g.worktrees |->
          [path |-> Join(RepoWorktreesDir, g.worktrees[i].name),
           ref |-> RefsHeads \o g.worktrees[i].branch]]

\* (mutant: the repository is told from its worktrees by the directory name)
ParseWorktree_Mutant(e) ==
    LET branch == StripPrefix(e.ref, RefsHeads)
        is_main == FileName(e.path) = RepoName
        name == IF is_main
                THEN (IF branch = << >> THEN RepoName ELSE branch)
                ELSE FileName(e.path)
    IN  Feature(name, e.path, branch, is_main)

\* One `worktree` / `branch` pair of the listing, as list_features reads it.
ParseWorktree(e) ==
    LET branch == StripPrefix(e.ref, RefsHeads)
        is_main == e.path = RepoPath
        name == IF is_main
                THEN (IF branch = << >> THEN RepoName ELSE branch)
                ELSE FileName(e.path)
    IN  Feature(name, e.path, branch, is_main)

\* The entries of the worktrees directory that git does not list.
Unlisted(g) == g.dirs \ Registered(g)

\* The orders in which read_dir may return the entries S.
Orderings(S) ==
    {f \in [1..Cardinality(S) -> S] : \A i, j \in 1..Cardinality(S) : f[i] = f[j] => i = j}

\* GitService::list_features; list_ok: `git worktree list` succeeded.
list_features(g, list_ok, extras) ==
    IF ~list_ok THEN << >>
    ELSE [i \in DOMAIN WorktreeListing(g) |-> ParseWorktree(WorktreeListing(g)[i])]
         \o [i \in DOMAIN extras |->
               Feature(FileName(Join(RepoWorktreesDir, extras[i])),
                       Join(RepoWorktreesDir, extras[i]), Unknown, FALSE)]

\* features.iter().find(|f| f.name == feature_name): the first match.
FindFeature(features, feature_name) ==
    IF \E i \in DOMAIN features : features[i].name = feature_name
    THEN Some(features[CHOOSE i \in DOMAIN features :
                           /\ features[i].name = feature_name
                           /\ \A j \in 1..(i - 1) : features[j].name # feature_name])
    ELSE None

\* git worktree prune: forgets the worktrees whose directory is gone.
Prune(g) == SelectSeq(g.worktrees, LAMBDA e : e.name \in g.dirs)

\* GitService::delete_feature; remove_ok: `git worktree remove --force` did
\* not fail for a worktree that is registered and present.
delete_feature(g, feature_name, remove_ok) ==
    LET removed == remove_ok /\ feature_name \in Registered(g) /\ feature_name \in g.dirs
        g1 == IF removed
              THEN Git(g.dirs \ {feature_name},
                       SelectSeq(g.worktrees, LAMBDA e : e.name # feature_name),
                       g.branches)
              ELSE Git(g.dirs \ {feature_name}, Prune(g), g.branches)
        branch_name == FeaturePrefix \o feature_name
        g2 == IF branch_name \in g1.branches /\ branch_name \notin CheckedOut(g1)
              THEN Git(g1.dirs, g1.worktrees, g1.branches \ {branch_name})
              ELSE g1
    IN  [deleted |-> TRUE, git |-> g2]

-----------------------------------------------------------------------------
(* Coordinator: the tmux session (services/tmux.rs).  The state of tmux is *)
(* passed to the operators as a record t; a window is a record of its name *)
(* and of the current command of its pane.  Every tmux command is a        *)
(* subprocess that may fail (non-zero exit, or the 30 s deadline of        *)
(* shell::run): the `ok` parameters say whether it did not.                *)

Tmux(s, w) == [session |-> s, windows |-> w]

c_bash == <<"b","a","s","h">>
c_Bash == <<"B","a","s","h">>
c_vim == <<"v","i","m">>

IDLE_SHELLS ==
    {c_bash, <<"z","s","h">>, <<"s","h">>, <<"f","i","s","h">>, <<"d","a","s","h">>,
     <<"k","s","h">>, <<"t","c","s","h">>, <<"c","s","h">>}

\* The shell that tmux starts in a new window.
DefaultShell == c_bash

\* The window a target `<session>:<name>` resolves to: the first one of that
\* name; 0 if there is none.
WindowIndex(t, name) ==
    IF t.session /\ \E i \in DOMAIN t.windows : t.windows[i].name = name
    THEN CHOOSE i \in DOMAIN t.windows :
            /\ t.windows[i].name = name
            /\ \A j \in 1..(i - 1) : t.windows[j].name # name
    ELSE 0

list_windows(t, ok) ==
    IF ok /\ t.session THEN [i \in DOMAIN t.windows |-> t.windows[i].name] ELSE << >>

window_exists(t, name, ok) ==
    \E i \in DOMAIN list_windows(t, ok) : list_windows(t, ok)[i] = name

get_pane_command(t, window, ok) ==
    IF ok /\ WindowIndex(t, window) # 0 /\ t.windows[WindowIndex(t, window)].cmd # << >>
    THEN Some(t.windows[WindowIndex(t, window)].cmd)
    ELSE None

is_shell_idle(t, window, ok) ==
    LET cmd == get_pane_command(t, window, ok)
    IN  IF ~cmd.some THEN TRUE ELSE ToLowercase(cmd.val) \in IDLE_SHELLS

create_window(t, name, ok) ==
    IF ok /\ t.session
    THEN [ok |-> TRUE,
          tmux |-> Tmux(TRUE, Append(t.windows, [name |-> name, cmd |-> DefaultShell]))]
    ELSE [ok |-> FALSE, tmux |-> t]

select_window(t, name, ok) == ok /\ WindowIndex(t, name) # 0

\* tmux kill-window; the session ends with its last window.
kill_window(t, name, ok) ==
    IF ok /\ WindowIndex(t, name) # 0
    THEN LET rest == [i \in 1..(Len(t.windows) - 1) |->
                        IF i < WindowIndex(t, name) THEN t.windows[i] ELSE t.windows[i + 1]]
         IN  Tmux(rest # << >>, rest)
    ELSE t

\* One call of send_keys(window, keys, true).
SendKeys(window, keys) == [window |-> window, keys |-> keys]

\* format!("cd \"{dir}\"")
CdKeys(dir) == <<"c","d"," ","\"">> \o dir \o <<"\"">>
ClearKeys == <<"c","l","e","a","r">>

\* tmux new-session -d: the session starts with one window running the shell.
ensure_session(t, ok) ==
    IF t.session THEN [ok |-> TRUE, tmux |-> t]
    ELSE IF ok
    THEN [ok |-> TRUE,
          tmux |-> Tmux(TRUE, <<[name |-> DefaultShell, cmd |-> DefaultShell]>>)]
    ELSE [ok |-> FALSE, tmux |-> t]

ensure_window(t, name, working_dir, list_ok, new_ok) ==
    IF window_exists(t, name, list_ok) THEN [ok |-> TRUE, tmux |-> t, keys |-> << >>]
    ELSE LET c == create_window(t, name, new_ok)
         IN  IF ~c.ok THEN [ok |-> FALSE, tmux |-> t, keys |-> << >>]
             ELSE [ok |-> TRUE, tmux |-> c.tmux,
                   keys |-> IF working_dir.some
                            THEN <<SendKeys(name, CdKeys(working_dir.val))>>
                            ELSE << >>]

\* o: which of the commands of the call succeed (list-windows, list-panes,
\* list-windows again, new-window, select-window).
switch_to_window(t, name, working_dir, o) ==
    LET window_existed == window_exists(t, name, o.list1)
        has_running_process == window_existed /\ ~is_shell_idle(t, name, o.panes)
        e == ensure_window(t, name, working_dir, o.list2, o.new)
        selected == select_window(e.tmux, name, o.select)
        R(ok, switched, keys) ==
            [ok |-> ok, switched |-> switched,
             has_running_process |-> has_running_process,
             tmux |-> e.tmux, keys |-> keys]
    IN  IF ~e.ok THEN R(FALSE, FALSE, << >>)
        ELSE IF ~selected THEN R(TRUE, FALSE, e.keys)
        ELSE IF working_dir.some /\ ~has_running_process
        THEN R(TRUE, TRUE, e.keys \o <<SendKeys(name, CdKeys(working_dir.val)),
                                       SendKeys(name, ClearKeys)>>)
        ELSE R(TRUE, TRUE, e.keys)

window_name(repo_path, feature_name) == FileName(repo_path) \o <<":">> \o feature_name

-----------------------------------------------------------------------------
(* Coordinator: the request handlers (nomadflow-server/src/routes/features.rs). *)

\* The outcomes of the subprocesses a request runs: at most one of the
\* commands named in cmds fails.
Outcomes(cmds) == {[c \in cmds |-> c # failed] : failed \in cmds \cup {"none"}}

CreateOutcomes == Outcomes({"session", "list2", "new"})
DeleteOutcomes == Outcomes({"list", "kill", "remove"})
SwitchOutcomes == Outcomes({"list", "session", "list1", "panes", "list2", "new", "select"})

\* CreateFeatureRequest { repo_path, branch_name, base_branch }
CreateFeatureRequest(branch_name, base_branch) ==
    [repo_path |-> RepoPath, branch_name |-> branch_name, base_branch |-> base_branch]

CreateFeatureRequests ==
    {CreateFeatureRequest(b_feature_login, b_main),
     CreateFeatureRequest(b_hot_main, b_develop)}

\* DeleteFeatureRequest / SwitchFeatureRequest { repo_path, feature_name }
FeatureRequest(feature_name) == [repo_path |-> RepoPath, feature_name |-> feature_name]

\* The featureName of delete-feature and switch-feature requests.
FeatureNames == {n_login, b_main}

\* The commands the user runs in a pane.
PaneCommands == {c_Bash, c_vim}

MainDetail == "Cannot delete the main repository branch"

\* A response of the coordinator, with what the handler did to produce it.
CoordOut(op, req, status, detail, worktree_path, branch, tmux_window, has_running_process, keys, calls) ==
    [op |-> op, req |-> req, status |-> status, detail |-> detail,
     worktree_path |-> worktree_path, branch |-> branch,
     tmux_window |-> tmux_window, has_running_process |-> has_running_process,
     keys |-> keys, calls |-> calls]

SetGit(g) == dirs' = g.dirs /\ worktrees' = g.worktrees /\ branches' = g.branches

SetTmux(t) == session' = t.session /\ windows' = t.windows

WithinBounds(g, t) ==
    Cardinality(g.dirs) <= MaxWorktrees /\ Len(t.windows) <= MaxWindows

CoordInit ==
    /\ dirs = {}
    /\ worktrees = << >>
    /\ branches = {b_main}
    /\ session = FALSE
    /\ windows = << >>
    /\ coord_out = [op |-> "none"]

\* POST /api/create-feature
CreateFeatureReq(req, o) ==
    LET g == Git(dirs, worktrees, branches)
        t == Tmux(session, windows)
        base_branch == IF req.base_branch = b_main THEN None ELSE Some(req.base_branch)
        c == create_feature(g, req.branch_name, base_branch)
        wt_name == FileName(c.worktree_path)
        s == ensure_session(t, o.session)
        win_name == window_name(req.repo_path, wt_name)
        w == ensure_window(s.tmux, win_name, Some(c.worktree_path), o.list2, o.new)
    IN  /\ WithinBounds(c.git, w.tmux)
        /\ SetGit(c.git)
        /\ IF ~c.ok
           THEN /\ SetTmux(t)
                /\ coord_out' = CoordOut("create_feature", req, 400,
                                    "Failed to create worktree", << >>, << >>, << >>,
                                    FALSE, << >>, <<"create_feature">>)
           ELSE IF ~s.ok
           THEN /\ SetTmux(t)
                /\ coord_out' = CoordOut("create_feature", req, 500,
                                    "Failed to create tmux session", c.worktree_path,
                                    c.branch, << >>, FALSE, << >>,
                                    <<"create_feature", "ensure_session">>)
           ELSE IF ~w.ok
           THEN /\ SetTmux(s.tmux)
                /\ coord_out' = CoordOut("create_feature", req, 500,
                                    "Failed to create tmux window", c.worktree_path,
                                    c.branch, << >>, FALSE, << >>,
                                    <<"create_feature", "ensure_session", "ensure_window">>)
           ELSE /\ SetTmux(w.tmux)
                /\ coord_out' = CoordOut("create_feature", req, 200, "",
                                    c.worktree_path, c.branch, win_name, FALSE, w.keys,
                                    <<"create_feature", "ensure_session", "ensure_window">>)
        /\ UNCHANGED <<relayVars, authVars, wsVars, tuiVars, srvVars, opVars, wpVars, nameVars, regVars, winVars, secVars, fsVars>>

\* (mutant: the main worktree is not told apart)
DeletesMain_Mutant(found) == FALSE

\* if f.is_main { return Err(400) }, for the feature that find returned
DeletesMain(found) == found.some /\ found.val.is_main

\* POST /api/delete-feature
DeleteFeatureReq(feature_name, o) ==
    \E extras \in Orderings(Unlisted(Git(dirs, worktrees, branches))) :
    LET g == Git(dirs, worktrees, branches)
        t == Tmux(session, windows)
        features == list_features(g, o.list, extras)
        found == FindFeature(features, feature_name)
        win_name == window_name(RepoPath, feature_name)
        d == delete_feature(g, feature_name, o.remove)
    IN  /\ IF DeletesMain(found)
           THEN /\ UNCHANGED <<dirs, worktrees, branches, session, windows>>
                /\ coord_out' = CoordOut("delete_feature", FeatureRequest(feature_name), 400, MainDetail,
                                    << >>, << >>, << >>, FALSE, << >>,
                                    <<"list_features">>)
           ELSE /\ SetTmux(kill_window(t, win_name, o.kill))
                /\ SetGit(d.git)
                /\ coord_out' = CoordOut("delete_feature", FeatureRequest(feature_name), 200, "",
                                    << >>, << >>, << >>, FALSE, << >>,
                                    <<"list_features", "kill_window", "delete_feature">>)
        /\ UNCHANGED <<relayVars, authVars, wsVars, tuiVars, srvVars, opVars, wpVars, nameVars, regVars, winVars, secVars, fsVars>>

\* POST /api/switch-feature
SwitchFeatureReq(feature_name, o) ==
    \E extras \in Orderings(Unlisted(Git(dirs, worktrees, branches))) :
    LET g == Git(dirs, worktrees, branches)
        t == Tmux(session, windows)
        features == list_features(g, o.list, extras)
        found == FindFeature(features, feature_name)
        c == create_feature(g, feature_name, None)
        g2 == IF found.some THEN g ELSE c.git
        worktree_path == IF found.some THEN found.val.worktree_path ELSE c.worktree_path
        first == IF found.some THEN <<"list_features">>
                 ELSE <<"list_features", "create_feature">>
        s == ensure_session(t, o.session)
        win_name == window_name(RepoPath, feature_name)
        sw == switch_to_window(s.tmux, win_name, Some(worktree_path), o)
    IN  /\ WithinBounds(g2, sw.tmux)
        /\ SetGit(g2)
        /\ IF ~found.some /\ ~c.ok
           THEN /\ SetTmux(t)
                /\ coord_out' = CoordOut("switch_feature", FeatureRequest(feature_name), 400,
                                    "Failed to create worktree", << >>, << >>, << >>,
                                    FALSE, << >>, first)
           ELSE IF ~s.ok
           THEN /\ SetTmux(t)
                /\ coord_out' = CoordOut("switch_feature", FeatureRequest(feature_name), 500,
                                    "Failed to create tmux session", worktree_path,
                                    << >>, << >>, FALSE, << >>,
                                    first \o <<"ensure_session">>)
           ELSE /\ SetTmux(sw.tmux)
                /\ coord_out' = CoordOut("switch_feature", FeatureRequest(feature_name),
                                    IF sw.ok /\ sw.switched THEN 200 ELSE 500,
                                    IF ~sw.ok THEN "Failed to create tmux window"
                                    ELSE IF ~sw.switched THEN "Failed to switch to window"
                                    ELSE "",
                                    worktree_path, << >>,
                                    IF sw.ok /\ sw.switched THEN win_name ELSE << >>,
                                    sw.has_running_process, sw.keys,
                                    first \o <<"ensure_session", "switch_to_window">>)
        /\ UNCHANGED <<relayVars, authVars, wsVars, tuiVars, srvVars, opVars, wpVars, nameVars, regVars, winVars, secVars, fsVars>>

\* POST /api/attach-branch
AttachBranchReq(branch_name, o) ==
    LET g == Git(dirs, worktrees, branches)
        t == Tmux(session, windows)
        req == [repo_path |-> RepoPath, branch_name |-> branch_name]
        c == attach_branch(g, branch_name)
        wt_name == FileName(c.worktree_path)
        s == ensure_session(t, o.session)
        win_name == window_name(req.repo_path, wt_name)
        w == ensure_window(s.tmux, win_name, Some(c.worktree_path), o.list2, o.new)
    IN  /\ WithinBounds(c.git, w.tmux)
        /\ SetGit(c.git)
        /\ IF ~c.ok
           THEN /\ SetTmux(t)
                /\ coord_out' = CoordOut("attach_branch", req, 400,
                                    "Failed to attach branch", << >>, << >>, << >>,
                                    FALSE, << >>, <<"attach_branch">>)
           ELSE IF ~s.ok
           THEN /\ SetTmux(t)
                /\ coord_out' = CoordOut("attach_branch", req, 500,
                                    "Failed to create tmux session", c.worktree_path,
                                    c.branch, << >>, FALSE, << >>,
                                    <<"attach_branch", "ensure_session">>)
           ELSE IF ~w.ok
           THEN /\ SetTmux(s.tmux)
                /\ coord_out' = CoordOut("attach_branch", req, 500,
                                    "Failed to create tmux window", c.worktree_path,
                                    c.branch, << >>, FALSE, << >>,
                                    <<"attach_branch", "ensure_session", "ensure_window">>)
           ELSE /\ SetTmux(w.tmux)
                /\ coord_out' = CoordOut("attach_branch", req, 200, "",
                                    c.worktree_path, c.branch, win_name, FALSE, w.keys,
                                    <<"attach_branch", "ensure_session", "ensure_window">>)
        /\ UNCHANGED <<relayVars, authVars, wsVars, tuiVars, srvVars, opVars, wpVars, nameVars, regVars, winVars, secVars, fsVars>>

\* The user starts or ends a program in the pane of window i.
PaneRuns(i, cmd) ==
    /\ i \in DOMAIN windows
    /\ windows[i].cmd # cmd
    /\ windows' = [windows EXCEPT ![i].cmd = cmd]
    /\ UNCHANGED <<dirs, worktrees, branches, session, coord_out>>
    /\ UNCHANGED <<relayVars, authVars, wsVars, tuiVars, srvVars, opVars, wpVars, nameVars, regVars, winVars, secVars, fsVars>>

CoordNext ==
    \/ \E req \in CreateFeatureRequests : \E o \in CreateOutcomes : CreateFeatureReq(req, o)
    \/ \E f \in FeatureNames : \E o \in DeleteOutcomes : DeleteFeatureReq(f, o)
    \/ \E f \in FeatureNames : \E o \in SwitchOutcomes : SwitchFeatureReq(f, o)
    \/ \E i \in 1..MaxWindows : \E cmd \in PaneCommands : PaneRuns(i, cmd)

\* The coordinator asked to create, attach and delete worktrees of more
\* branches; every tmux command succeeds.
b_x_demo == <<"x","/","d","e","m","o">>
n_demo == <<"d","e","m","o">>

WorktreeCreateRequests ==
    CreateFeatureRequests
    \cup {CreateFeatureRequest(b_fix_login, b_main), CreateFeatureRequest(b_x_demo, b_main)}

AttachBranches == {b_dev, b_fix_login, b_main}

WorktreeNames == {n_login, n_login_2, b_main, b_dev, n_demo}

\* No command of the request fails.
NoFailure(cmds) == {[c \in cmds |-> TRUE]}

WorktreesNext ==
    \/ \E req \in WorktreeCreateRequests : \E o \in NoFailure({"session", "list2", "new"}) :
          CreateFeatureReq(req, o)
    \/ \E b \in AttachBranches : \E o \in NoFailure({"session", "list2", "new"}) :
          AttachBranchReq(b, o)
    \/ \E f \in WorktreeNames : \E o \in {x \in DeleteOutcomes : x.list} :
          DeleteFeatureReq(f, o)

\* The featureName of switch-feature requests: a worktree's name, or a
\* branch name with a "/".
SwitchNames == {n_login, b_feature_login, b_dev}

\* Features are created, attached, switched to and deleted.
SwitchNext ==
    \/ \E req \in WorktreeCreateRequests : \E o \in NoFailure({"session", "list2", "new"}) :
          CreateFeatureReq(req, o)
    \/ \E b \in AttachBranches : \E o \in NoFailure({"session", "list2", "new"}) :
          AttachBranchReq(b, o)
    \/ \E f \in SwitchNames :
          \E o \in NoFailure({"list", "session", "list1", "panes", "list2", "new", "select"}) :
             SwitchFeatureReq(f, o)
    \/ \E f \in WorktreeNames : \E o \in {x \in DeleteOutcomes : x.list} :
          DeleteFeatureReq(f, o)

-----------------------------------------------------------------------------
(* Coordinator: the claims. *)

\* The pane of the window that `<session>:<name>` names runs a command that
\* is not an idle shell.
BusyWindow(name) ==
    LET t == Tmux(session, windows)
    IN  /\ WindowIndex(t, name) # 0
        /\ ToLowercase(windows[WindowIndex(t, name)].cmd) \notin IDLE_SHELLS

\* C1: a switch-feature request that reaches switch_to_window for a window
\* that exists at that moment with a pane running something else than an
\* idle shell sends no keys at all; and whenever keys are sent,
\* has_running_process is false.
C1_NoKeysToBusyPane ==
    [][\A f \in FeatureNames : \A o \in SwitchOutcomes :
         ( /\ coord_out'.op = "switch_feature"
           /\ coord_out'.req.feature_name = f
           /\ coord_out'.calls[Len(coord_out'.calls)] = "switch_to_window"
           /\ SwitchFeatureReq(f, o) )
         => /\ BusyWindow(window_name(RepoPath, f)) => coord_out'.keys = << >>
            /\ coord_out'.keys # << >> => ~coord_out'.has_running_process]_vars

\* C2: a create-feature request that repeats the previous request's branch,
\* after that one succeeded and created the worktree directory d, succeeds
\* too, returns the path d and the same branch, and leaves the worktrees
\* directory as it is.
C2_CreateIdempotent ==
    [][\A req \in CreateFeatureRequests : \A o \in CreateOutcomes :
         ( /\ coord_out.op = "create_feature"
           /\ coord_out.worktree_path # << >>
           /\ coord_out.req = req
           /\ FileName(coord_out.worktree_path) \in dirs
           /\ CreateFeatureReq(req, o) )
         => /\ coord_out'.worktree_path = coord_out.worktree_path
            /\ coord_out'.branch = coord_out.branch
            /\ dirs' = dirs]_vars

\* list_features reports a worktree named f with is_main = true.
ReportsMain(f, list_ok) ==
    \E extras \in Orderings(Unlisted(Git(dirs, worktrees, branches))) :
        LET features == list_features(Git(dirs, worktrees, branches), list_ok, extras)
        IN  \E i \in DOMAIN features : features[i].name = f /\ features[i].is_main

\* C3: a delete-feature request that names the worktree list_features
\* reports as the main one is answered 400 "Cannot delete the main
\* repository branch"; the handler calls neither kill_window nor
\* delete_feature, so windows, worktree directories, registered worktrees
\* and branches stay as they are.
C3_MainNotDeleted ==
    [][\A f \in FeatureNames : \A o \in DeleteOutcomes :
         ( /\ coord_out'.op = "delete_feature"
           /\ coord_out'.req.feature_name = f
           /\ ReportsMain(f, o.list)
           /\ DeleteFeatureReq(f, o) )
         => /\ coord_out'.status = 400
            /\ coord_out'.detail = MainDetail
            /\ coord_out'.calls = <<"list_features">>
            /\ UNCHANGED <<dirs, worktrees, branches, session, windows>>]_vars

\* C3 witness: the deletion of `main` was refused while a worktree directory
\* `main` and a window `demo:main` exist, which it would have removed.
C3_Witness ==
    /\ coord_out.op = "delete_feature"
    /\ coord_out.status = 400
    /\ coord_out.req.feature_name = b_main
    /\ b_main \in dirs
    /\ WindowIndex(Tmux(session, windows), window_name(RepoPath, b_main)) # 0

\* What list_features may return in the current state, one sequence for
\* each order in which read_dir returns the unregistered directories.
Listings ==
    LET g == Git(dirs, worktrees, branches)
    IN  {list_features(g, TRUE, extras) : extras \in Orderings(Unlisted(g))}

\* The `name` fields of a listing's entries that occur more than once.
RepeatedNames(fs) ==
    {fs[i].name : i \in {k \in DOMAIN fs : \E j \in DOMAIN fs : j # k /\ fs[j].name = fs[k].name}}

\* C37: after delete-feature answered deleted = true for f, the directory
\* <base>/worktrees/<repo-name>/<f> does not exist and list_features has no
\* entry named f.
C37_DeletedIsGone ==
    (coord_out.op = "delete_feature" /\ coord_out.status = 200) =>
        /\ coord_out.req.feature_name \notin dirs
        /\ \A fs \in Listings : \A i \in DOMAIN fs :
              fs[i].name # coord_out.req.feature_name

\* C36: in every successful create-feature, attach-branch or switch-feature
\* response for a worktree other than the repository, tmuxWindow is
\* <basename(repoPath)>:<basename(worktreePath)>.
C36_WindowOfWorktree ==
    ( /\ coord_out.op \in {"create_feature", "attach_branch", "switch_feature"}
      /\ coord_out.status = 200
      /\ coord_out.worktree_path # RepoPath )
    => coord_out.tmux_window =
          FileName(RepoPath) \o <<":">> \o FileName(coord_out.worktree_path)

\* C18: when `git worktree list` can be read, list_features returns exactly
\* one entry with is_main = true and its path is the repository path; every
\* registered worktree is listed with is_main = false; and the worktree that
\* a successful create-feature or attach-branch request returns is listed
\* with is_main = false right after the request.
C18_OneMainWorktree ==
    /\ [](\A fs \in Listings :
            /\ Cardinality({i \in DOMAIN fs : fs[i].is_main}) = 1
            /\ \A i \in DOMAIN fs : fs[i].is_main => fs[i].worktree_path = RepoPath
            /\ \A k \in DOMAIN worktrees :
                  \E i \in DOMAIN fs :
                      /\ fs[i].worktree_path = Join(RepoWorktreesDir, worktrees[k].name)
                      /\ ~fs[i].is_main)
    /\ [][(/\ coord_out'.op \in {"create_feature", "attach_branch"}
           /\ coord_out'.worktree_path # << >>
           /\ \E req \in WorktreeCreateRequests, b \in AttachBranches,
                 o \in NoFailure({"session", "list2", "new"}) :
                 CreateFeatureReq(req, o) \/ AttachBranchReq(b, o))
          => \A fs \in Listings' :
                \E i \in DOMAIN fs :
                    /\ fs[i].worktree_path = coord_out'.worktree_path
                    /\ ~fs[i].is_main]_vars

\* A create-feature and an attach-branch request have each made a worktree
\* (one of them in a directory named after the repository), and the
\* attach-branch request has just been answered 200.
C18_Witness ==
    /\ coord_out.op = "attach_branch"
    /\ coord_out.status = 200
    /\ Len(worktrees) = 2
    /\ \E k \in DOMAIN worktrees : worktrees[k].name = n_demo
    /\ \E k \in DOMAIN worktrees :
          Join(RepoWorktreesDir, worktrees[k].name) = coord_out.worktree_path

\* C19: after any sequence of create-feature, attach-branch and
\* delete-feature requests on the repository, no listing that list_features
\* returns has two entries of the same name, the main worktree (named after
\* its branch) included.
C19_UniqueNames ==
    \A fs \in Listings : RepeatedNames(fs) = {}

-----------------------------------------------------------------------------
(* Laptop server: bytes and base64 (the base64 crate's STANDARD engine). *)

\* The printable ASCII characters, codes 32 to 126 (the grave accent, code
\* 96, is spelled out).
Ascii ==
    <<" ","!","\"","#","$","%","&","'","(",")","*","+",",","-",".","/">>
    \o DigitSeq \o <<":",";","<","=",">","?","@">> \o UpperSeq
    \o <<"[","\\","]","^","_","(grave)">> \o LowerSeq \o <<"{","|","}","~">>

\* The byte of a character, and str::as_bytes.
Ord(c) == 31 + CHOOSE k \in DOMAIN Ascii : Ascii[k] = c
Bytes(s) == [i \in DOMAIN s |-> Ord(s[i])]

Base64Alphabet == UpperSeq \o LowerSeq \o DigitSeq \o <<"+","/">>

B64Value(c) == (CHOOSE k \in DOMAIN Base64Alphabet : Base64Alphabet[k] = c) - 1

B64Char(v) == Base64Alphabet[v + 1]

\* STANDARD.encode: three bytes become four characters, the rest is padded.
RECURSIVE Base64Encode(_)
Base64Encode(bytes) ==
    IF Len(bytes) = 0 THEN << >>
    ELSE IF Len(bytes) = 1
    THEN <<B64Char(bytes[1] \div 4), B64Char((bytes[1] % 4) * 16), "=", "=">>
    ELSE IF Len(bytes) = 2
    THEN <<B64Char(bytes[1] \div 4),
           B64Char((bytes[1] % 4) * 16 + bytes[2] \div 16),
           B64Char((bytes[2] % 16) * 4), "=">>
    ELSE <<B64Char(bytes[1] \div 4),
           B64Char((bytes[1] % 4) * 16 + bytes[2] \div 16),
           B64Char((bytes[2] % 16) * 4 + bytes[3] \div 64),
           B64Char(bytes[3] % 64)>>
         \o Base64Encode(SubSeq(bytes, 4, Len(bytes)))

\* The number of '=' that end the text (at most two count as padding).
Padding(text) ==
    IF Len(text) >= 2 /\ text[Len(text)] = "=" /\ text[Len(text) - 1] = "=" THEN 2
    ELSE IF Len(text) >= 1 /\ text[Len(text)] = "=" THEN 1
    ELSE 0

\* The bytes of one group of four characters, the last `pad` of them padding.
DecodeGroup(q, pad) ==
    LET v(i) == IF i > 4 - pad THEN 0 ELSE B64Value(q[i])
        three == <<v(1) * 4 + v(2) \div 16,
                   (v(2) % 16) * 16 + v(3) \div 4,
                   (v(3) % 4) * 64 + v(4)>>
    IN  SubSeq(three, 1, 3 - pad)

RECURSIVE DecodeGroups(_, _)
DecodeGroups(text, pad) ==
    IF Len(text) = 0 THEN << >>
    ELSE IF Len(text) = 4 THEN DecodeGroup(text, pad)
    ELSE DecodeGroup(SubSeq(text, 1, 4), 0) \o DecodeGroups(SubSeq(text, 5, Len(text)), pad)

\* STANDARD.decode(text).ok(): canonical padding, no character outside the
\* alphabet, no stray bits in the last group.
Base64Decode(text) ==
    LET pad == Padding(text)
        body == SubSeq(text, 1, Len(text) - pad)
        alphabet == {Base64Alphabet[k] : k \in DOMAIN Base64Alphabet}
        valid == /\ Len(text) % 4 = 0
                 /\ \A i \in DOMAIN body : body[i] \in alphabet
                 /\ pad = 1 => B64Value(body[Len(body)]) % 4 = 0
                 /\ pad = 2 => B64Value(body[Len(body)]) % 16 = 0
    IN  IF valid THEN [some |-> TRUE, val |-> DecodeGroups(text, pad)] ELSE None

\* String::from_utf8(bytes).ok(), for bytes of one-byte characters
IsUtf8(bytes) == \A i \in DOMAIN bytes : bytes[i] < 128

-----------------------------------------------------------------------------
(* Laptop server: authentication and routing (auth.rs, lib.rs, routes/). *)

s3cret == <<"s","3","c","r","e","t">>
Bearer == <<"B","e","a","r","e","r"," ">>
Basic == <<"B","a","s","i","c"," ">>
Colon == 58

p_health == <<"/","h","e","a","l","t","h">>
p_api == <<"/","a","p","i","/">>
p_terminal == <<"/","t","e","r","m","i","n","a","l">>
p_list_repos == p_api \o <<"l","i","s","t","-","r","e","p","o","s">>
p_clone_repo == p_api \o <<"c","l","o","n","e","-","r","e","p","o">>
p_list_features == p_api \o <<"l","i","s","t","-","f","e","a","t","u","r","e","s">>
p_create_feature == p_api \o <<"c","r","e","a","t","e","-","f","e","a","t","u","r","e">>
p_delete_feature == p_api \o <<"d","e","l","e","t","e","-","f","e","a","t","u","r","e">>
p_switch_feature == p_api \o <<"s","w","i","t","c","h","-","f","e","a","t","u","r","e">>
p_list_branches == p_api \o <<"l","i","s","t","-","b","r","a","n","c","h","e","s">>
p_attach_branch == p_api \o <<"a","t","t","a","c","h","-","b","r","a","n","c","h">>
p_terminal_ws == p_terminal \o <<"/","w","s">>
p_terminal_asset == p_terminal \o <<"/","a","p","p",".","j","s">>
p_api_unknown == p_api \o <<"n","o","p","e">>

\* A route: an exact path, or a prefix followed by a catch-all {*path}.
Route(pattern, wildcard, handler) ==
    [pattern |-> pattern, wildcard |-> wildcard, handler |-> handler]

health_router == {Route(p_health, FALSE, "health")}

repos_router ==
    {Route(p_list_repos, FALSE, "list_repos"), Route(p_clone_repo, FALSE, "clone_repo")}

features_router ==
    {Route(p_list_features, FALSE, "list_features"),
     Route(p_create_feature, FALSE, "create_feature"),
     Route(p_delete_feature, FALSE, "delete_feature"),
     Route(p_switch_feature, FALSE, "switch_feature"),
     Route(p_list_branches, FALSE, "list_branches"),
     Route(p_attach_branch, FALSE, "attach_branch")}

\* routes::terminal::http_proxy_router(): the two HTML proxy routes
http_proxy_router ==
    {Route(p_terminal, FALSE, "terminal_page"),
     Route(p_terminal \o <<"/">>, TRUE, "terminal_asset")}

\* routes::terminal::ws_router(): the WebSocket route
ws_router == {Route(p_terminal_ws, FALSE, "ws_proxy")}

\* build_router: the routes behind the auth_middleware layer, and all routes.
LayeredRoutes == repos_router \cup features_router \cup http_proxy_router
build_router == health_router \cup LayeredRoutes \cup ws_router

Matches(route, path) ==
    IF route.wildcard
    THEN StartsWith(path, route.pattern) /\ Len(path) > Len(route.pattern)
    ELSE path = route.pattern

\* The route the router picks: an exact path wins over a catch-all.
MatchRoute(path) ==
    IF \E r \in build_router : ~r.wildcard /\ Matches(r, path)
    THEN Some(CHOOSE r \in build_router : ~r.wildcard /\ Matches(r, path))
    ELSE IF \E r \in build_router : Matches(r, path)
    THEN Some(CHOOSE r \in build_router : Matches(r, path))
    ELSE None

\* (mutant: any Authorization header passes)
Authenticated_Mutant(auth_header, secret) == auth_header.some

\* auth_middleware: the value of `authenticated`
Authenticated(auth_header, secret) ==
    IF auth_header.some /\ StartsWith(auth_header.val, Bearer)
    THEN Bytes(SubSeq(auth_header.val, 8, Len(auth_header.val))) = Bytes(secret)
    ELSE IF auth_header.some /\ StartsWith(auth_header.val, Basic)
    THEN LET bytes == Base64Decode(SubSeq(auth_header.val, 7, Len(auth_header.val)))
             colon == FirstIndexOf(bytes.val, Colon)
         IN  /\ bytes.some
             /\ IsUtf8(bytes.val)
             /\ colon # 0
             /\ SubSeq(bytes.val, colon + 1, Len(bytes.val)) = Bytes(secret)
    ELSE FALSE

\* auth_middleware: whether the request is passed on to the handler
auth_middleware(auth_header, secret) ==
    IF secret = << >> THEN TRUE ELSE Authenticated(auth_header, secret)

\* (mutant: the token is not compared)
ws_authorized_Mutant(token, secret) == TRUE

\* ws_proxy: the check of the `token` query parameter
ws_authorized(token, secret) ==
    IF secret # << >>
    THEN (IF token.some THEN token.val ELSE << >>) = secret
    ELSE TRUE

\* A request: path, Authorization header, `token` query parameter, and
\* whether it asks for a WebSocket upgrade.
HttpRequest(path, authorization, token, upgrade) ==
    [path |-> path, authorization |-> authorization, token |-> token, upgrade |-> upgrade]

BasicOf(userpass) == Basic \o Base64Encode(Bytes(userpass))

u_nomadflow == <<"n","o","m","a","d","f","l","o","w">>

AuthorizationHeaders ==
    {None,
     Some(Bearer \o s3cret),
     Some(Bearer),
     Some(Bearer \o <<"w","r","o","n","g">>),
     Some(Bearer \o s3cret \o <<" ">>),
     Some(<<"b","e","a","r","e","r"," ">> \o s3cret),
     Some(s3cret),
     Some(Basic \o <<"d","T","p","z","M","2","N","y","Z","X","Q","=">>),
     Some(BasicOf(u_nomadflow \o <<":">> \o s3cret)),
     Some(BasicOf(<<":">> \o s3cret)),
     Some(BasicOf(s3cret)),
     Some(BasicOf(s3cret \o <<":","x">>)),
     Some(BasicOf(<<"a",":","b",":">> \o s3cret)),
     Some(Basic \o <<"d","T","p","z","M","2","N","y","Z","X","Q">>),
     Some(Basic \o s3cret \o <<"!","!">>)}

Tokens == {None, Some(<< >>), Some(s3cret), Some(<<"S","3","C","R","E","T">>)}

Paths ==
    {p_health, p_list_repos, p_delete_feature, p_terminal, p_terminal_asset,
     p_api_unknown}

WsRequests ==
    {HttpRequest(p_terminal_ws, a, t, u) :
        a \in {None, Some(Bearer \o s3cret)}, t \in Tokens, u \in BOOLEAN}

HttpRequests ==
    {HttpRequest(p, a, None, FALSE) : p \in Paths, a \in AuthorizationHeaders}
    \cup WsRequests

Secrets == {<< >>, s3cret}

HttpOut(req, status, handler, challenge, upgraded, connected) ==
    [op |-> "request", req |-> req, status |-> status, handler |-> handler,
     challenge |-> challenge, upgraded |-> upgraded, connected |-> connected]

\* The body of an answer: nothing, a fixed text, or the JSON a handler makes.
EmptyBody == [kind |-> "empty"]

TextBody(text) == [kind |-> "text", text |-> text]

\* (mutant: the refusal repeats the credential it was given)
unauthorized_body_Mutant(auth_header) ==
    IF auth_header.some THEN TextBody(auth_header.val) ELSE EmptyBody

\* auth_middleware: the body of (StatusCode::UNAUTHORIZED, [WWW-Authenticate])
unauthorized_body(auth_header) == EmptyBody

\* ws_proxy: the body of the 403
forbidden_body == TextBody(<<"Authentication required">>)

\* WebSocketUpgrade's rejection of a request that is not an upgrade
upgrade_rejection == TextBody(<<"Connection header did not include 'upgrade'">>)

\* The answer of a handler: made from the request's body and from the
\* repositories, worktrees and windows that exist.
handler_body(handler, body) ==
    [kind |-> "json", handler |-> handler, of |-> body,
     dirs |-> dirs, worktrees |-> worktrees, windows |-> windows]

response_body(out, body) ==
    CASE out.status = 401 -> unauthorized_body(out.req.authorization)
      [] out.status = 403 -> forbidden_body
      [] out.status = 400 -> upgrade_rejection
      [] out.status = 200 -> handler_body(out.handler, body)
      [] OTHER -> EmptyBody

b_json == <<"{","}">>

RequestBodies == {<< >>, b_json}

AuthInit ==
    /\ auth_secret \in Secrets
    /\ ttyd_conns = 0
    /\ http_out = [op |-> "none"]
    /\ http_req_body = << >>
    /\ http_body = EmptyBody

\* The state of the server when only the other components act.
AuthQuiet ==
    /\ auth_secret = s3cret
    /\ ttyd_conns = 0
    /\ http_out = [op |-> "none"]
    /\ http_req_body = << >>
    /\ http_body = EmptyBody

\* One request served by the router; connect_ok: handle_ws reaches ttyd.
Request(req, connect_ok) ==
    LET route == MatchRoute(req.path)
    IN  /\ IF ~route.some
           THEN /\ http_out' = HttpOut(req, 404, "none", FALSE, FALSE, FALSE)
                /\ UNCHANGED ttyd_conns
           ELSE IF route.val \in LayeredRoutes
           THEN /\ http_out' =
                      IF auth_middleware(req.authorization, auth_secret)
                      THEN HttpOut(req, 200, route.val.handler, FALSE, FALSE, FALSE)
                      ELSE HttpOut(req, 401, "none", TRUE, FALSE, FALSE)
                /\ UNCHANGED ttyd_conns
           ELSE IF route.val \in ws_router
           THEN IF ~req.upgrade
                THEN /\ http_out' = HttpOut(req, 400, "none", FALSE, FALSE, FALSE)
                     /\ UNCHANGED ttyd_conns
                ELSE IF ~ws_authorized(req.token, auth_secret)
                THEN /\ http_out' = HttpOut(req, 403, "ws_proxy", FALSE, FALSE, FALSE)
                     /\ UNCHANGED ttyd_conns
                ELSE /\ ttyd_conns + (IF connect_ok THEN 1 ELSE 0) <= MaxConns
                     /\ http_out' = HttpOut(req, 101, "ws_proxy", FALSE, TRUE, connect_ok)
                     /\ ttyd_conns' = ttyd_conns + (IF connect_ok THEN 1 ELSE 0)
           ELSE /\ http_out' = HttpOut(req, 200, route.val.handler, FALSE, FALSE, FALSE)
                /\ UNCHANGED ttyd_conns
        /\ \E body \in RequestBodies :
              /\ http_req_body' = body
              /\ http_body' = response_body(http_out', body)
        /\ UNCHANGED auth_secret
        /\ UNCHANGED <<relayVars, coordVars, wsVars, tuiVars, srvVars, opVars, wpVars, nameVars, regVars, winVars, secVars, fsVars>>

\* A bridge to the terminal daemon ends.
WsEnd ==
    /\ ttyd_conns > 0
    /\ ttyd_conns' = ttyd_conns - 1
    /\ UNCHANGED <<auth_secret, http_out, http_req_body, http_body>>
    /\ UNCHANGED <<relayVars, coordVars, wsVars, tuiVars, srvVars, opVars, wpVars, nameVars, regVars, winVars, secVars, fsVars>>

AuthNext ==
    \/ \E req \in HttpRequests : \E connect_ok \in BOOLEAN : Request(req, connect_ok)
    \/ WsEnd

\* Requests to the server while the worktrees and windows change.
StateRequests ==
    {HttpRequest(p, a, None, FALSE) :
        p \in {p_list_repos, p_delete_feature, p_terminal_asset},
        a \in {None, Some(Bearer \o s3cret), Some(Bearer \o <<"w","r","o","n","g">>),
               Some(BasicOf(s3cret \o <<":","x">>))}}
    \cup {HttpRequest(p_terminal_ws, None, t, u) : t \in Tokens, u \in BOOLEAN}

AuthStateNext ==
    \/ \E req \in StateRequests : \E connect_ok \in BOOLEAN : Request(req, connect_ok)
    \/ WsEnd
    \/ \E o \in NoFailure({"session", "list2", "new"}) :
          CreateFeatureReq(CreateFeatureRequest(b_feature_login, b_main), o)
    \/ \E o \in NoFailure({"list", "kill", "remove"}) : DeleteFeatureReq(n_login, o)

-----------------------------------------------------------------------------
(* Laptop server: the claims. *)

\* The user names of the Basic credentials: any text without a colon.
UserNames == {<< >>, <<"u">>, u_nomadflow}

\* The request carries `Authorization: Bearer <secret>` or a Basic
\* credential whose password is the secret.
CarriesCredentials(req, secret) ==
    /\ req.authorization.some
    /\ \/ req.authorization.val = Bearer \o secret
       \/ \E user \in UserNames :
            req.authorization.val = Basic \o Base64Encode(Bytes(user \o <<":">> \o secret))

\* The path is one of an /api/* route or of the /terminal HTTP proxy.
ProtectedPath(path) ==
    /\ MatchRoute(path).some
    /\ \/ StartsWith(path, p_api)
       \/ path = p_terminal
       \/ StartsWith(path, p_terminal \o <<"/">>) /\ path # p_terminal_ws

\* C4: with a non-empty secret, a request to an /api/* route or to the
\* /terminal HTTP proxy that carries neither `Bearer <secret>` nor a Basic
\* credential with the secret as password gets 401 and reaches no handler;
\* /health is answered whatever the credentials; with an empty secret every
\* request to one of these routes reaches its handler.
C4_AuthRequired ==
    http_out.op = "request" =>
        /\ ( /\ auth_secret # << >>
             /\ ProtectedPath(http_out.req.path)
             /\ ~CarriesCredentials(http_out.req, auth_secret) )
           => http_out.status = 401 /\ http_out.handler = "none"
        /\ http_out.req.path = p_health
           => http_out.status = 200 /\ http_out.handler = "health"
        /\ ( auth_secret = << >> /\ ProtectedPath(http_out.req.path) )
           => http_out.status = 200 /\ http_out.handler # "none"

\* C4 witness: a request to an API route that carries a Basic credential
\* with the secret as user name, not as password, was answered 401.
C4_Witness ==
    /\ http_out.op = "request"
    /\ http_out.req.path = p_delete_feature
    /\ http_out.req.authorization = Some(BasicOf(s3cret \o <<":","x">>))
    /\ http_out.status = 401

\* C5: with a non-empty secret, an upgrade request to /terminal/ws whose
\* token is missing or is not the secret is answered 403, is not upgraded and
\* opens no connection to the terminal daemon.
C5_WsTokenRequired ==
    [][\A req \in WsRequests : \A connect_ok \in BOOLEAN :
         ( /\ req.upgrade
           /\ auth_secret # << >>
           /\ (~req.token.some \/ req.token.val # auth_secret)
           /\ Request(req, connect_ok) )
         => /\ http_out'.status = 403
            /\ ~http_out'.upgraded
            /\ ~http_out'.connected
            /\ ttyd_conns' = ttyd_conns]_vars

\* C5 witness: an upgrade request without a token was answered 403 while a
\* connection to the terminal daemon, opened for an earlier request, exists.
C5_Witness ==
    /\ http_out.op = "request"
    /\ http_out.req.path = p_terminal_ws
    /\ http_out.req.upgrade
    /\ ~http_out.req.token.some
    /\ http_out.status = 403
    /\ ttyd_conns > 0

\* The request was refused for its credentials: a route behind the
\* middleware without valid credentials, or the WebSocket route without the
\* secret as token.
RefusedByMiddleware(req) ==
    /\ MatchRoute(req.path).some
    /\ MatchRoute(req.path).val \in LayeredRoutes
    /\ ~CarriesCredentials(req, auth_secret)

RefusedOnWsRoute(req) ==
    /\ req.path = p_terminal_ws
    /\ (IF req.token.some THEN req.token.val ELSE << >>) # auth_secret

\* C27 as stated: with a secret configured, a request without valid
\* credentials gets 401 with the Basic challenge and no body on a route
\* behind the middleware, and 403 with no body on the WebSocket route,
\* whatever the worktrees and windows that exist and whatever its body.
C27_AsStated ==
    (auth_secret # << >> /\ http_out.op = "request") =>
        /\ RefusedByMiddleware(http_out.req) =>
              /\ http_out.status = 401
              /\ http_out.challenge
              /\ http_body = EmptyBody
        /\ RefusedOnWsRoute(http_out.req) =>
              /\ http_out.status = 403
              /\ http_body = EmptyBody

\* C27, amended: with a secret configured, a request without valid
\* credentials on a route behind the middleware gets 401 with the Basic
\* challenge and no body and reaches no handler; on the WebSocket route an
\* upgrade request whose token is not the secret gets 403 without challenge
\* and with the fixed body "Authentication required", and a request that is
\* not an upgrade is rejected before the token is looked at, with the same
\* answer whatever the token.  None of these answers depends on the wrong
\* credential, on the request's body, or on the worktrees and windows that
\* exist.
C27_UniformRefusal ==
    (auth_secret # << >> /\ http_out.op = "request") =>
        /\ RefusedByMiddleware(http_out.req) =>
              /\ http_out.status = 401
              /\ http_out.challenge
              /\ http_out.handler = "none"
              /\ http_body = EmptyBody
        /\ (RefusedOnWsRoute(http_out.req) /\ http_out.req.upgrade) =>
              /\ http_out.status = 403
              /\ ~http_out.challenge
              /\ ~http_out.upgraded
              /\ http_body = TextBody(<<"Authentication required">>)
        /\ (http_out.req.path = p_terminal_ws /\ ~http_out.req.upgrade) =>
              /\ http_out.status \notin {101, 403}
              /\ http_out.handler = "none"
              /\ ~http_out.upgraded
              /\ http_body = upgrade_rejection

\* A request with a body and a wrong password is refused while a worktree
\* and its window exist.
C27_Witness ==
    /\ http_out.op = "request"
    /\ http_out.req.path = p_delete_feature
    /\ http_out.req.authorization = Some(BasicOf(s3cret \o <<":","x">>))
    /\ http_req_body = b_json
    /\ worktrees # << >>
    /\ windows # << >>
    /\ http_out.status = 401
    /\ http_body = EmptyBody

-----------------------------------------------------------------------------
(* The WebSocket bridge (nomadflow-ws/src/lib.rs; handle_ws of               *)
(* routes/terminal.rs runs the same two loops between the client and the    *)
(* terminal daemon).  Each direction is a loop: take the next item of the   *)
(* source stream, match it, send it on and wait for the send.  The two      *)
(* loops run under tokio::select!, which returns when the first of them     *)
(* does and drops the other; the bridge then returns and drops the four     *)
(* halves, which closes both connections.                                   *)

client_to_upstream == "client_to_upstream"
upstream_to_client == "upstream_to_client"
Directions == {client_to_upstream, upstream_to_client}

\* Message::{Text, Binary, Ping, Pong, Close}
Message(kind, data) == [kind |-> kind, data |-> data]

\* What a stream's next() yields: Some(Ok(msg)), Some(Err(_)) or None.
Item(tag, msg) == [tag |-> tag, msg |-> msg]

NoMessage == Message("", << >>)

Messages ==
    {Message("Text", <<"a">>), Message("Binary", <<"a">>),
     Message("Ping", << >>), Message("Pong", << >>), Message("Close", << >>)}

Items == {Item("Ok", m) : m \in Messages} \cup {Item("Err", NoMessage), Item("None", NoMessage)}

\* (mutant: a binary message goes out as text)
MatchMessage_Mutant(item) ==
    IF item.tag = "Ok" /\ item.msg.kind \in {"Text", "Binary"}
    THEN [do |-> "send", msg |-> Message("Text", item.msg.data)]
    ELSE IF item.tag = "Ok" /\ item.msg.kind # "Close"
    THEN [do |-> "continue", msg |-> NoMessage]
    ELSE [do |-> "break", msg |-> NoMessage]

\* The match of one loop round: a text message is sent on as text, a binary
\* one as binary, with the same payload; a close message, an error and the
\* end of the stream break the loop; anything else is passed over.
MatchMessage(item) ==
    IF item.tag = "Ok" /\ item.msg.kind = "Text"
    THEN [do |-> "send", msg |-> Message("Text", item.msg.data)]
    ELSE IF item.tag = "Ok" /\ item.msg.kind = "Binary"
    THEN [do |-> "send", msg |-> Message("Binary", item.msg.data)]
    ELSE IF item.tag = "None" \/ item.tag = "Err" \/ item.msg.kind = "Close"
    THEN [do |-> "break", msg |-> NoMessage]
    ELSE [do |-> "continue", msg |-> NoMessage]

\* (mutant: the two loops are joined, the bridge waits for both)
select_Mutant(first_done, second_done) == first_done /\ second_done

\* tokio::select! over the two loops: ready as soon as one of them is.
select(first_done, second_done) == first_done \/ second_done

BridgeInit ==
    /\ ws_rx = [d \in Directions |-> << >>]
    /\ ws_tx = [d \in Directions |-> << >>]
    /\ ws_pc = [d \in Directions |-> "next"]
    /\ ws_conns = {"client", "upstream"}
    /\ ws_ended = FALSE

\* The bridge returns once select! is ready; its locals (the four halves of
\* the two connections) are dropped.
Returns(pc) ==
    /\ ws_ended' = select(pc[client_to_upstream] = "done", pc[upstream_to_client] = "done")
    /\ ws_conns' = IF ws_ended' THEN {} ELSE ws_conns

\* One round of a loop up to its send: rx.next().await yields `item`.
Receive(d, item) ==
    LET m == MatchMessage(item)
        pc == [ws_pc EXCEPT ![d] = CASE m.do = "send" -> "send"
                                     [] m.do = "break" -> "done"
                                     [] OTHER -> "next"]
    IN  /\ ~ws_ended
        /\ ws_pc[d] = "next"
        /\ item.tag = "Ok" => Len(ws_rx[d]) < MaxFrames
        /\ ws_rx' = IF item.tag = "Ok" THEN [ws_rx EXCEPT ![d] = Append(@, item.msg)]
                    ELSE ws_rx
        /\ ws_pc' = pc
        /\ Returns(pc)
        /\ UNCHANGED ws_tx
        /\ UNCHANGED <<relayVars, coordVars, authVars, tuiVars, srvVars, opVars, wpVars, nameVars, regVars, winVars, secVars, fsVars>>

\* tx.send(..).await completes: the message matched last went out, or the
\* send failed and the loop breaks.
Send(d, ok) ==
    LET received == ws_rx[d][Len(ws_rx[d])]
        pc == [ws_pc EXCEPT ![d] = IF ok THEN "next" ELSE "done"]
    IN  /\ ~ws_ended
        /\ ws_pc[d] = "send"
        /\ ws_tx' = IF ok
                    THEN [ws_tx EXCEPT ![d] = Append(@, MatchMessage(Item("Ok", received)).msg)]
                    ELSE ws_tx
        /\ ws_pc' = pc
        /\ Returns(pc)
        /\ UNCHANGED ws_rx
        /\ UNCHANGED <<relayVars, coordVars, authVars, tuiVars, srvVars, opVars, wpVars, nameVars, regVars, winVars, secVars, fsVars>>

BridgeNext ==
    \/ \E d \in Directions : \E item \in Items : Receive(d, item)
    \/ \E d \in Directions : \E ok \in BOOLEAN : Send(d, ok)

-----------------------------------------------------------------------------
(* WebSocket bridge: the claims. *)

\* The text and binary messages among those a direction received, in order.
DataFrames(d) == SelectSeq(ws_rx[d], LAMBDA m : m.kind \in {"Text", "Binary"})

\* C16: in each direction of a bridge, at every moment, the messages sent to
\* the destination are a prefix of the text and binary messages received from
\* the source: same order, same kind, same payload, none twice, none skipped;
\* no ping, pong or close message is sent on.
C16_FrameOrder ==
    \A d \in Directions :
        /\ Len(ws_tx[d]) <= Len(DataFrames(d))
        /\ \A i \in 1..Len(ws_tx[d]) : ws_tx[d][i] = DataFrames(d)[i]

\* C16 witness: a direction has received a ping and then a binary message,
\* and has sent on the binary message alone.
C16_Witness ==
    \E d \in Directions :
        /\ Len(ws_rx[d]) = 2
        /\ ws_rx[d][1].kind = "Ping"
        /\ ws_rx[d][2].kind = "Binary"
        /\ ws_tx[d] = <<ws_rx[d][2]>>

\* C17: the bridge has returned exactly when one of its directions has ended
\* (close message, error, end of stream or failed send), and that in the
\* very step that ends the direction; once it has returned both connections
\* are closed and no message is received or sent in either direction.
C17_BridgeEnds ==
    /\ [](ws_ended <=> \E d \in Directions : ws_pc[d] = "done")
    /\ [](ws_ended => ws_conns = {})
    /\ [][ws_ended => (ws_ended' /\ ws_tx' = ws_tx /\ ws_rx' = ws_rx)]_vars

\* C17 witness: one direction has ended with a close message while the other
\* was waiting for a send to complete; the bridge has returned, that message
\* was not sent and both connections are closed.
C17_Witness ==
    /\ ws_ended
    /\ ws_conns = {}
    /\ ws_pc[client_to_upstream] = "done"
    /\ ws_rx[client_to_upstream] # << >>
    /\ ws_rx[client_to_upstream][Len(ws_rx[client_to_upstream])].kind = "Close"
    /\ ws_pc[upstream_to_client] = "send"
    /\ Len(ws_tx[upstream_to_client]) < Len(DataFrames(upstream_to_client))

-----------------------------------------------------------------------------
(* The terminal client (nomadflow-tui/src/app.rs) and the repositories the   *)
(* server lists for it (GitService::list_repos).  A file name is a sequence *)
(* of bytes, of which InvalidByte stands for one that is not UTF-8; the     *)
(* strings of the API are UTF-8, so a name is converted when it is listed.  *)

\* str::trim, for spaces.
RECURSIVE Trim(_)
Trim(s) ==
    IF s # << >> /\ s[1] = " " THEN Trim(Tail(s))
    ELSE IF s # << >> /\ s[Len(s)] = " " THEN Trim(SubSeq(s, 1, Len(s) - 1))
    ELSE s

InvalidByte == "0xFF"
ReplacementCharacter == "U+FFFD"

\* OsStr::to_string_lossy
to_string_lossy(os) ==
    [i \in DOMAIN os |-> IF os[i] = InvalidByte THEN ReplacementCharacter ELSE os[i]]

ReposDir == <<"/","b","/","r","e","p","o","s">>

\* The names a repository in the repos directory may have.
n_a_b == <<"a"," ","b">>
n_r_invalid == <<"r", InvalidByte>>
RepoEntries == {RepoName, n_a_b, n_r_invalid}

\* The names list-features may return for a repository: a worktree's
\* directory name, or the branch of the main worktree.
FeatureLists == {<<n_login>>, <<b_feature_login, n_login>>}

\* (mutant: the name is sanitised as clone_repo sanitises the one it is given)
Repository_Mutant(path) ==
    [name |-> sanitize_name(to_string_lossy(FileName(path))),
     path |-> to_string_lossy(path)]

\* The Repository that list_repos pushes for a directory entry.
Repository(path) ==
    [name |-> to_string_lossy(FileName(path)),
     path |-> to_string_lossy(path)]

\* GitService::list_repos; order: the entries as read_dir returns them.
list_repos(order) == [i \in DOMAIN order |-> Repository(Join(ReposDir, order[i]))]

\* format!("{repo_name}:{}", f.name) of the FeaturesLoaded handler.
win_name(repo, feature_name) ==
    (IF repo.some THEN repo.val.name ELSE << >>) \o <<":">> \o feature_name

\* ServerConfig of servers.json (state.rs).
ServerConfig(id, name, api_url, auth_token) ==
    [id |-> id, name |-> name, api_url |-> api_url, auth_token |-> auth_token]

S1 == ServerConfig(1, <<"a">>, <<"u","1">>, None)
S2 == ServerConfig(2, <<"b">>, <<"u","2">>, None)

\* CliState: the last session, if one was saved.
CliState(last_server, last_repo, last_feature) ==
    [last_server |-> last_server, last_repo |-> last_repo, last_feature |-> last_feature]

\* The client was last attached to a feature of the first server.
LastSession == Some(CliState(S1.id, Join(ReposDir, RepoName), n_login))

\* A task that a handler spawns: one request to the server, answered later
\* through the channel.
Task(kind, server, repo_path, name) ==
    [kind |-> kind, server |-> server, repo_path |-> repo_path, name |-> name]

ErrorText == <<"e","r","r">>

\* The fields of App that have no variable of their own.
AppFields(a) ==
    [servers |-> a.servers, cli_state |-> a.cli_state, server |-> a.server,
     feature |-> a.feature, loading |-> a.loading, error |-> a.error,
     input_text |-> a.input_text, input_cursor |-> a.input_cursor,
     confirm_step |-> a.confirm_step, server_add_step |-> a.server_add_step,
     server_add_name |-> a.server_add_name, server_add_url |-> a.server_add_url,
     should_quit |-> a.should_quit, attach_session |-> a.attach_session]

\* App as the handlers see it; spawned: the tasks the handler has spawned.
App ==
    [screen |-> tui_screen, repos |-> tui_repos, selected_index |-> tui_selected,
     repo |-> tui_repo, features |-> tui_features, spawned |-> {},
     servers |-> tui_app.servers, cli_state |-> tui_app.cli_state,
     server |-> tui_app.server, feature |-> tui_app.feature,
     loading |-> tui_app.loading, error |-> tui_app.error,
     input_text |-> tui_app.input_text, input_cursor |-> tui_app.input_cursor,
     confirm_step |-> tui_app.confirm_step,
     server_add_step |-> tui_app.server_add_step,
     server_add_name |-> tui_app.server_add_name,
     server_add_url |-> tui_app.server_add_url,
     should_quit |-> tui_app.should_quit, attach_session |-> tui_app.attach_session]

\* App::new, and the start of App::run: with one server the client goes
\* straight to the repo picker.  The configuration file exists, so the
\* set-up wizard is not shown.
App_new(servers, cli_state) ==
    LET initial_screen == IF cli_state.some THEN "Resume" ELSE "ServerPicker"
        skip == initial_screen = "ServerPicker" /\ Len(servers) = 1
    IN  [screen |-> IF skip THEN "RepoPicker" ELSE initial_screen,
         repos |-> << >>, selected_index |-> 0, repo |-> None, features |-> << >>,
         spawned |-> IF skip THEN {Task("list_repos", servers[1].id, << >>, << >>)} ELSE {},
         servers |-> servers, cli_state |-> cli_state,
         server |-> IF Len(servers) = 1
                    THEN Some(servers[1]) ELSE None,
         feature |-> None, loading |-> skip, error |-> None,
         input_text |-> << >>, input_cursor |-> 0, confirm_step |-> FALSE,
         server_add_step |-> 0, server_add_name |-> << >>, server_add_url |-> << >>,
         should_quit |-> FALSE, attach_session |-> FALSE]

\* App::trigger_load_repos
trigger_load_repos(a) ==
    IF a.server.some
    THEN [a EXCEPT !.spawned = @ \cup {Task("list_repos", a.server.val.id, << >>, << >>)}]
    ELSE a

\* App::trigger_load_features
trigger_load_features(a) ==
    IF a.server.some /\ a.repo.some
    THEN [a EXCEPT !.spawned =
              @ \cup {Task("list_features", a.server.val.id, a.repo.val.path, << >>)}]
    ELSE a

\* App::do_attach
do_attach(a) ==
    LET b == [a EXCEPT !.screen = "Attaching", !.loading = TRUE, !.error = None]
    IN  IF b.server.some /\ b.repo.some /\ b.feature.some
        THEN [b EXCEPT !.spawned =
                 @ \cup {Task("switch_feature", b.server.val.id, b.repo.val.path, b.feature.val)}]
        ELSE b

\* App::do_resume
do_resume(a) ==
    IF ~a.cli_state.some THEN a
    ELSE LET found == {i \in DOMAIN a.servers : a.servers[i].id = a.cli_state.val.last_server}
             rp == a.cli_state.val.last_repo
         IN  IF found = {} THEN a
             ELSE do_attach([a EXCEPT
                     !.server = Some(a.servers[CHOOSE i \in found : \A j \in found : i <= j]),
                     !.repo = Some([name |-> FileName(rp), path |-> rp]),
                     !.feature = Some(a.cli_state.val.last_feature)])

\* App::do_create_feature
do_create_feature(a) ==
    LET b == [a EXCEPT !.screen = "Attaching", !.loading = TRUE]
    IN  IF b.server.some /\ b.repo.some
        THEN [b EXCEPT !.spawned =
                 @ \cup {Task("create_feature", b.server.val.id, b.repo.val.path, b.input_text)}]
        ELSE b

\* (mutant: the error stays)
go_back_Mutant(app) ==
    LET a == app
    IN  CASE a.screen = "RepoPicker" ->
               [a EXCEPT !.screen = "ServerPicker", !.server = None,
                         !.repos = << >>, !.selected_index = 0]
          [] a.screen = "FeaturePicker" ->
               [a EXCEPT !.screen = "RepoPicker", !.repo = None,
                         !.features = << >>, !.selected_index = 0]
          [] a.screen = "ServerAdd" ->
               [a EXCEPT !.screen = "ServerPicker", !.input_text = << >>,
                         !.input_cursor = 0, !.server_add_step = 0,
                         !.server_add_name = << >>, !.server_add_url = << >>,
                         !.selected_index = 0]
          [] a.screen = "FeatureCreate" ->
               [a EXCEPT !.screen = "FeaturePicker", !.input_text = << >>,
                         !.input_cursor = 0, !.confirm_step = FALSE,
                         !.selected_index = 0]
          [] a.screen = "Setup" -> [a EXCEPT !.should_quit = TRUE]
          [] a.screen = "Resume" ->
               [a EXCEPT !.screen = "ServerPicker", !.selected_index = 0]
          [] OTHER -> a

\* App::go_back
go_back(app) ==
    LET a == [app EXCEPT !.error = None]
    IN  CASE a.screen = "RepoPicker" ->
               [a EXCEPT !.screen = "ServerPicker", !.server = None,
                         !.repos = << >>, !.selected_index = 0]
          [] a.screen = "FeaturePicker" ->
               [a EXCEPT !.screen = "RepoPicker", !.repo = None,
                         !.features = << >>, !.selected_index = 0]
          [] a.screen = "ServerAdd" ->
               [a EXCEPT !.screen = "ServerPicker", !.input_text = << >>,
                         !.input_cursor = 0, !.server_add_step = 0,
                         !.server_add_name = << >>, !.server_add_url = << >>,
                         !.selected_index = 0]
          [] a.screen = "FeatureCreate" ->
               [a EXCEPT !.screen = "FeaturePicker", !.input_text = << >>,
                         !.input_cursor = 0, !.confirm_step = FALSE,
                         !.selected_index = 0]
          [] a.screen = "Setup" -> [a EXCEPT !.should_quit = TRUE]
          [] a.screen = "Resume" ->
               [a EXCEPT !.screen = "ServerPicker", !.selected_index = 0]
          [] OTHER -> a

\* The arrow keys of the pickers, for a list of `count` lines.
move_selection(a, code, count) ==
    IF code \in {"Up", "k"}
    THEN [a EXCEPT !.selected_index = IF @ > 0 THEN @ - 1 ELSE @]
    ELSE [a EXCEPT !.selected_index = IF @ + 1 < count THEN @ + 1 ELSE @]

\* App::handle_resume_key
handle_resume_key(a, code) ==
    CASE code \in {"Up", "k", "Down", "j"} -> move_selection(a, code, 2)
      [] code = "Enter" ->
           IF a.selected_index = 0 THEN do_resume(a)
           ELSE [a EXCEPT !.screen = "ServerPicker", !.selected_index = 0]
      [] OTHER -> a

\* App::handle_server_picker_key
handle_server_picker_key(a, code) ==
    CASE code \in {"Up", "k", "Down", "j"} -> move_selection(a, code, Len(a.servers) + 1)
      [] code = "Enter" ->
           IF a.selected_index = Len(a.servers)
           THEN [a EXCEPT !.screen = "ServerAdd", !.selected_index = 0,
                          !.input_text = << >>, !.input_cursor = 0,
                          !.server_add_step = 0, !.server_add_name = << >>,
                          !.server_add_url = << >>]
           ELSE IF a.selected_index < Len(a.servers)
           THEN trigger_load_repos(
                    [a EXCEPT !.server = Some(a.servers[a.selected_index + 1]),
                              !.screen = "RepoPicker", !.selected_index = 0,
                              !.loading = TRUE])
           ELSE a
      [] OTHER -> a

\* The text input of the server and feature forms.
text_input(a, code) ==
    CASE code = "Backspace" ->
           IF a.input_cursor > 0
           THEN [a EXCEPT !.input_cursor = @ - 1,
                          !.input_text = SubSeq(@, 1, a.input_cursor - 1)
                                         \o SubSeq(@, a.input_cursor + 1, Len(@))]
           ELSE a
      [] code = "Left" -> [a EXCEPT !.input_cursor = IF @ > 0 THEN @ - 1 ELSE @]
      [] code = "Right" ->
           [a EXCEPT !.input_cursor = IF @ < Len(a.input_text) THEN @ + 1 ELSE @]
      [] OTHER ->
           [a EXCEPT !.input_text = SubSeq(@, 1, a.input_cursor) \o <<code>>
                                    \o SubSeq(@, a.input_cursor + 1, Len(@)),
                     !.input_cursor = @ + 1]

\* App::handle_server_add_key; the id of the new server is made of the
\* clock and the process id, here the next number.
handle_server_add_key(a, code) ==
    IF a.server_add_step = 3
    THEN CASE code \in {"y", "Y", "Enter"} ->
                [a EXCEPT !.servers = Append(@,
                              ServerConfig(Len(a.servers) + 1, a.server_add_name,
                                           a.server_add_url,
                                           IF Trim(a.input_text) = << >>
                                           THEN None ELSE Some(Trim(a.input_text)))),
                          !.screen = "ServerPicker", !.input_text = << >>,
                          !.input_cursor = 0, !.server_add_step = 0,
                          !.server_add_name = << >>, !.server_add_url = << >>,
                          !.selected_index = 0]
           [] code \in {"n", "N"} ->
                [a EXCEPT !.server_add_step = 0, !.input_text = << >>,
                          !.input_cursor = 0, !.server_add_name = << >>,
                          !.server_add_url = << >>]
           [] OTHER -> a
    ELSE CASE code = "Enter" ->
                (CASE a.server_add_step = 0 ->
                        IF Trim(a.input_text) = << >> THEN a
                        ELSE [a EXCEPT !.server_add_name = Trim(a.input_text),
                                       !.input_text = << >>, !.input_cursor = 0,
                                       !.server_add_step = 1]
                   [] a.server_add_step = 1 ->
                        IF Trim(a.input_text) = << >> THEN a
                        ELSE [a EXCEPT !.server_add_url = Trim(a.input_text),
                                       !.input_text = << >>, !.input_cursor = 0,
                                       !.server_add_step = 2]
                   [] a.server_add_step = 2 -> [a EXCEPT !.server_add_step = 3]
                   [] OTHER -> a)
           [] code = "Esc" -> go_back(a)
           [] code \in {"Up", "Down", "Ctrl-c"} -> a
           [] OTHER -> text_input(a, code)

\* App::handle_repo_picker_key
handle_repo_picker_key(a, code) ==
    CASE code \in {"Up", "k", "Down", "j"} -> move_selection(a, code, Len(a.repos))
      [] code = "Enter" ->
           IF a.selected_index < Len(a.repos)
           THEN trigger_load_features(
                    [a EXCEPT !.repo = Some(a.repos[a.selected_index + 1]),
                              !.screen = "FeaturePicker", !.selected_index = 0,
                              !.loading = TRUE])
           ELSE a
      [] OTHER -> a

\* App::handle_feature_picker_key
handle_feature_picker_key(a, code) ==
    CASE code \in {"Up", "k", "Down", "j"} -> move_selection(a, code, Len(a.features) + 1)
      [] code = "Enter" ->
           IF a.selected_index = Len(a.features)
           THEN [a EXCEPT !.screen = "FeatureCreate", !.selected_index = 0,
                          !.input_text = << >>, !.input_cursor = 0,
                          !.confirm_step = FALSE]
           ELSE IF a.selected_index < Len(a.features)
           THEN do_attach([a EXCEPT !.feature = Some(a.features[a.selected_index + 1].name)])
           ELSE a
      [] OTHER -> a

\* App::handle_feature_create_key
handle_feature_create_key(a, code) ==
    IF a.confirm_step
    THEN CASE code \in {"y", "Y", "Enter"} -> do_create_feature(a)
           [] code \in {"n", "N", "Esc"} -> [a EXCEPT !.confirm_step = FALSE]
           [] OTHER -> a
    ELSE CASE code = "Enter" ->
                IF Trim(a.input_text) # << >>
                THEN [a EXCEPT !.input_text = Trim(a.input_text), !.confirm_step = TRUE]
                ELSE a
           [] code = "Esc" -> go_back(a)
           [] code \in {"Up", "Down", "Ctrl-c"} -> a
           [] OTHER -> text_input(a, code)

\* App::handle_key
handle_key(a, code) ==
    IF code = "q" /\ a.screen \notin {"FeatureCreate", "ServerAdd", "Setup"}
    THEN [a EXCEPT !.should_quit = TRUE]
    ELSE IF code = "Ctrl-c" THEN [a EXCEPT !.should_quit = TRUE]
    ELSE IF code = "Esc" THEN go_back(a)
    ELSE CASE a.screen = "Resume" -> handle_resume_key(a, code)
           [] a.screen = "ServerPicker" -> handle_server_picker_key(a, code)
           [] a.screen = "ServerAdd" -> handle_server_add_key(a, code)
           [] a.screen = "RepoPicker" -> handle_repo_picker_key(a, code)
           [] a.screen = "FeaturePicker" -> handle_feature_picker_key(a, code)
           [] a.screen = "FeatureCreate" -> handle_feature_create_key(a, code)
           [] OTHER -> a

\* The tasks that wait for the server, after `done` have answered and those
\* of `a` were spawned.
Waiting(a, done) == (tui_tasks \ done) \cup {t \in a.spawned : t.kind # "list_features"}

\* The client's state becomes `a`.
Becomes(a, done) ==
    /\ Len(a.input_text) <= MaxInput
    /\ Len(a.servers) <= MaxServers
    /\ tui_screen' = a.screen
    /\ tui_repos' = a.repos
    /\ tui_selected' = a.selected_index
    /\ tui_repo' = a.repo
    /\ tui_features' = a.features
    /\ tui_app' = AppFields(a)
    /\ tui_requests' =
          (tui_requests \ {t.repo_path : t \in {d \in done : d.kind = "list_features"}})
             \cup {t.repo_path : t \in {s \in a.spawned : s.kind = "list_features"}}
    /\ tui_tasks' = Waiting(a, done)
    /\ Cardinality(tui_requests') + Cardinality(tui_tasks') <= MaxRequests

\* servers.json holds two servers.
InitialServers == <<S1, S2>>

TuiInit ==
    /\ repos_dir = {}
    /\ tui_requests = {}
    /\ tui_repos_of = 0
    /\ tui_features_of = << >>
    /\ LET a == App_new(InitialServers, LastSession)
       IN  /\ tui_screen = a.screen
           /\ tui_repos = a.repos
           /\ tui_selected = a.selected_index
           /\ tui_repo = a.repo
           /\ tui_features = a.features
           /\ tui_app = AppFields(a)
           /\ tui_tasks = a.spawned

\* A repository is cloned into the repos directory.
RepoAppears(name) ==
    /\ name \notin repos_dir
    /\ Cardinality(repos_dir) < MaxRepos
    /\ repos_dir' = repos_dir \cup {name}
    /\ UNCHANGED <<tui_screen, tui_repos, tui_selected, tui_repo, tui_features, tui_requests, tui_app, tui_tasks, tui_repos_of, tui_features_of>>
    /\ UNCHANGED <<relayVars, coordVars, authVars, wsVars, srvVars, opVars, wpVars, nameVars, regVars, winVars, secVars, fsVars>>

\* The run loop takes a key from the terminal.
Key(code) ==
    /\ ~tui_app.should_quit
    /\ Becomes(handle_key(App, code), {})
    /\ UNCHANGED <<repos_dir, tui_repos_of, tui_features_of>>
    /\ UNCHANGED <<relayVars, coordVars, authVars, wsVars, srvVars, opVars, wpVars, nameVars, regVars, winVars, secVars, fsVars>>

\* AppEvent::ReposLoaded(Ok(repos)): the answer to a list-repos request sent
\* to `server`.
ReposLoaded(server, order) ==
    /\ ~tui_app.should_quit
    /\ Task("list_repos", server, << >>, << >>) \in tui_tasks
    /\ Becomes([App EXCEPT !.repos = list_repos(order), !.loading = FALSE, !.error = None],
               {Task("list_repos", server, << >>, << >>)})
    /\ tui_repos_of' = server
    /\ UNCHANGED <<repos_dir, tui_features_of>>
    /\ UNCHANGED <<relayVars, coordVars, authVars, wsVars, srvVars, opVars, wpVars, nameVars, regVars, winVars, secVars, fsVars>>

\* AppEvent::FeaturesLoaded(Ok(features)): the answer to the list-features
\* request sent for repo_path.
FeaturesLoaded(repo_path, features) ==
    /\ ~tui_app.should_quit
    /\ repo_path \in tui_requests
    /\ Becomes([App EXCEPT !.features = [i \in DOMAIN features |->
                                           [name |-> features[i],
                                            win_name |-> win_name(tui_repo, features[i])]],
                           !.loading = FALSE, !.error = None],
               {Task("list_features", 0, repo_path, << >>)})
    /\ tui_features_of' = repo_path
    /\ UNCHANGED <<repos_dir, tui_repos_of>>
    /\ UNCHANGED <<relayVars, coordVars, authVars, wsVars, srvVars, opVars, wpVars, nameVars, regVars, winVars, secVars, fsVars>>

\* AppEvent::ReposLoaded(Err(e)), AppEvent::FeaturesLoaded(Err(e)) and
\* AppEvent::FeatureCreated(Err(e)): the request of task t has failed.
RequestFailed(t) ==
    /\ ~tui_app.should_quit
    /\ t.kind \in {"list_repos", "list_features", "create_feature"}
    /\ IF t.kind = "list_features" THEN t.repo_path \in tui_requests ELSE t \in tui_tasks
    /\ Becomes([App EXCEPT !.loading = FALSE, !.error = Some(ErrorText)], {t})
    /\ UNCHANGED <<repos_dir, tui_repos_of, tui_features_of>>
    /\ UNCHANGED <<relayVars, coordVars, authVars, wsVars, srvVars, opVars, wpVars, nameVars, regVars, winVars, secVars, fsVars>>

\* AppEvent::FeatureCreated(Ok(name))
FeatureCreated(t) ==
    /\ ~tui_app.should_quit
    /\ t.kind = "create_feature"
    /\ t \in tui_tasks
    /\ Becomes(do_attach([App EXCEPT !.feature = Some(t.name)]), {t})
    /\ UNCHANGED <<repos_dir, tui_repos_of, tui_features_of>>
    /\ UNCHANGED <<relayVars, coordVars, authVars, wsVars, srvVars, opVars, wpVars, nameVars, regVars, winVars, secVars, fsVars>>

\* AppEvent::SwitchDone
SwitchDone(t, ok) ==
    /\ ~tui_app.should_quit
    /\ t.kind = "switch_feature"
    /\ t \in tui_tasks
    /\ Becomes(IF ok
               THEN [App EXCEPT !.attach_session = TRUE, !.should_quit = TRUE]
               ELSE [App EXCEPT !.loading = FALSE, !.error = Some(ErrorText),
                                !.screen = "FeaturePicker"],
               {t})
    /\ UNCHANGED <<repos_dir, tui_repos_of, tui_features_of>>
    /\ UNCHANGED <<relayVars, coordVars, authVars, wsVars, srvVars, opVars, wpVars, nameVars, regVars, winVars, secVars, fsVars>>

\* The keys of the pickers, and those of the forms as well.
PickerKeys == {"Up", "Down", "Enter", "Esc"}
Keys == PickerKeys \cup {"Backspace", "y"}

\* The client browses the repositories of the servers.
TuiNext ==
    \/ \E name \in RepoEntries : RepoAppears(name)
    \/ \E code \in PickerKeys : Key(code)
    \/ \E t \in tui_tasks : \E order \in Orderings(repos_dir) : ReposLoaded(t.server, order)
    \/ \E repo_path \in tui_requests : \E features \in FeatureLists :
          FeaturesLoaded(repo_path, features)

\* The client with its forms and with requests that fail, for the
\* repositories of NavRepos.
NavRepos == {RepoName, n_a_b}
NavFeatureLists == {<<n_login>>}

\* The same client with the keys of the pickers only.
EscapeNext ==
    \/ \E name \in NavRepos : RepoAppears(name)
    \/ \E code \in PickerKeys : Key(code)
    \/ \E t \in tui_tasks : \E order \in Orderings(repos_dir) : ReposLoaded(t.server, order)
    \/ \E repo_path \in tui_requests : \E features \in NavFeatureLists :
          FeaturesLoaded(repo_path, features)
    \/ \E t \in tui_tasks \cup {Task("list_features", 0, p, << >>) : p \in tui_requests} :
          RequestFailed(t)
    \/ \E t \in tui_tasks : \E ok \in BOOLEAN : SwitchDone(t, ok)

NavNext ==
    \/ \E name \in NavRepos : RepoAppears(name)
    \/ \E code \in Keys : Key(code)
    \/ \E t \in tui_tasks : \E order \in Orderings(repos_dir) : ReposLoaded(t.server, order)
    \/ \E repo_path \in tui_requests : \E features \in NavFeatureLists :
          FeaturesLoaded(repo_path, features)
    \/ \E t \in tui_tasks \cup {Task("list_features", 0, p, << >>) : p \in tui_requests} :
          RequestFailed(t)
    \/ \E t \in tui_tasks : FeatureCreated(t)
    \/ \E t \in tui_tasks : \E ok \in BOOLEAN : SwitchDone(t, ok)

-----------------------------------------------------------------------------
(* Terminal client: the claims. *)

\* C20: for every repository r of a list-repos answer and every feature name
\* f, the name r.name ":" f that the terminal client derives is the name the
\* server computes with window_name(r.path, f); and when the answer to the
\* list-features request for the selected repository arrives, the window
\* name derived for each feature is the server's.
C20_SameWindowName ==
    /\ [](\A i \in DOMAIN tui_repos : \A fs \in FeatureLists : \A k \in DOMAIN fs :
            win_name(Some(tui_repos[i]), fs[k]) = window_name(tui_repos[i].path, fs[k]))
    /\ [][\A repo_path \in tui_requests :
            (/\ tui_repo.some
             /\ tui_repo.val.path = repo_path
             /\ \E features \in FeatureLists : FeaturesLoaded(repo_path, features))
            => \A k \in DOMAIN tui_features' :
                  tui_features'[k].win_name
                      = window_name(repo_path, tui_features'[k].name)]_vars

\* The features of a repository whose directory name is not UTF-8 have been
\* loaded, one of them named after a branch with a slash.
C20_Witness ==
    /\ tui_repo.some
    /\ ReplacementCharacter = tui_repo.val.name[Len(tui_repo.val.name)]
    /\ Len(tui_features) = 2
    /\ tui_features[1].name = b_feature_login
    /\ tui_features[1].win_name = <<"r", ReplacementCharacter, ":">> \o b_feature_login

\* C39: whenever the repo picker is shown with a selected server, the repos
\* list is empty or the answer to a list-repos request sent to that server;
\* whenever the feature picker is shown with a selected repository, the
\* features list is empty or the answer to the list-features request for that
\* repository; also when the answer arrives after Escape and another choice.
C39_ListsOfSelection ==
    /\ (tui_screen = "RepoPicker" /\ tui_app.server.some)
          => (tui_repos = << >> \/ tui_repos_of = tui_app.server.val.id)
    /\ (tui_screen = "FeaturePicker" /\ tui_repo.some)
          => (tui_features = << >> \/ tui_features_of = tui_repo.val.path)

\* Escape leaves a screen for the one above it, with the selection at the
\* top, no error, and the choice of the level that is left forgotten.
EscapeMoves ==
    \A m \in {<<"RepoPicker", "ServerPicker">>, <<"FeaturePicker", "RepoPicker">>,
              <<"FeatureCreate", "FeaturePicker">>, <<"ServerAdd", "ServerPicker">>,
              <<"Resume", "ServerPicker">>} :
        tui_screen = m[1] =>
            /\ tui_screen' = m[2]
            /\ tui_selected' = 0
            /\ tui_app'.error = None
            /\ m[1] = "RepoPicker" => (~tui_app'.server.some /\ tui_repos' = << >>)
            /\ m[1] = "FeaturePicker" => (~tui_repo'.some /\ tui_features' = << >>)

\* Escape on the Attaching screen changes nothing.
EscapeWhileAttaching == tui_screen = "Attaching" => UNCHANGED tuiVars

\* Escape on the Attaching screen clears the error and nothing else.
EscapeClearsError ==
    tui_screen = "Attaching" =>
        /\ tui_app' = [tui_app EXCEPT !.error = None]
        /\ UNCHANGED <<repos_dir, tui_screen, tui_repos, tui_selected, tui_repo, tui_features, tui_requests, tui_tasks>>

\* C40, as stated: Escape moves RepoPicker to ServerPicker, FeaturePicker to
\* RepoPicker, FeatureCreate to FeaturePicker, ServerAdd to ServerPicker and
\* Resume to ServerPicker, each time with selected_index 0, the error cleared
\* and the selection of the level that is left cleared; on the Attaching
\* screen it changes nothing.
C40_AsStated == [][Key("Esc") => (EscapeMoves /\ EscapeWhileAttaching)]_vars

\* C40: the same five moves; on the Attaching screen Escape clears the error
\* and leaves the screen, the selections, the lists and the requests as they
\* are.
C40_Escape == [][Key("Esc") => (EscapeMoves /\ EscapeClearsError)]_vars

\* The client is back at the server picker with no server selected and no
\* repository listed, while the list-repos request of the server it had
\* selected is still waiting, and the error of a failed request has gone.
C40_Witness ==
    /\ tui_screen = "ServerPicker"
    /\ ~tui_app.server.some
    /\ tui_repos = << >>
    /\ tui_selected = 0
    /\ tui_app.error = None
    /\ \E t \in tui_tasks : t.kind = "list_repos"
    /\ tui_repos_of # 0

-----------------------------------------------------------------------------
(* The relay's WebSocket proxy (nomadflow-relay/src/main.rs proxy_handler,  *)
(* handle_ws_proxy).  The relay answers the client's upgrade first and      *)
(* connects to the backend in the task that on_upgrade spawns.              *)

\* The segments of s between the occurrences of c (str::split).
RECURSIVE SplitOn(_, _)
SplitOn(s, c) ==
    IF FirstIndexOf(s, c) = 0 THEN <<s>>
    ELSE <<SubSeq(s, 1, FirstIndexOf(s, c) - 1)>>
         \o SplitOn(SubSeq(s, FirstIndexOf(s, c) + 1, Len(s)), c)

\* The concatenation of a sequence of sequences.
RECURSIVE Flatten(_)
Flatten(ss) == IF ss = << >> THEN << >> ELSE Head(ss) \o Flatten(Tail(ss))

\* [String]::join
RECURSIVE JoinWith(_, _)
JoinWith(ss, sep) ==
    IF ss = << >> THEN << >>
    ELSE IF Len(ss) = 1 THEN Head(ss)
    ELSE Head(ss) \o sep \o JoinWith(Tail(ss), sep)

\* The protocols of one header value: split at commas, each part trimmed.
ProtocolsOf(value) == [i \in DOMAIN SplitOn(value, ",") |-> Trim(SplitOn(value, ",")[i])]

\* proxy_handler: the protocols of all Sec-WebSocket-Protocol header values.
client_protocols(values) == Flatten([i \in DOMAIN values |-> ProtocolsOf(values[i])])

\* WebSocketUpgrade::protocols: the first of `protocols` that the request's
\* (first) Sec-WebSocket-Protocol header names becomes the protocol of the
\* answer; with no such header the upgrade is unchanged.
protocols(upgrade, list) ==
    IF ~upgrade.sec_websocket_protocol.some THEN upgrade
    ELSE LET req_protocols == ProtocolsOf(upgrade.sec_websocket_protocol.val)
             found == {i \in DOMAIN list : \E k \in DOMAIN req_protocols : req_protocols[k] = list[i]}
         IN  [upgrade EXCEPT !.protocol =
                 IF found = {} THEN None
                 ELSE Some(list[CHOOSE i \in found : \A j \in found : i <= j])]

\* proxy_handler: for proto in protocols { upgrade = upgrade.protocols([proto]) }
RECURSIVE confirm(_, _)
confirm(upgrade, list) ==
    IF list = << >> THEN upgrade
    ELSE confirm(protocols(upgrade, <<Head(list)>>), Tail(list))

\* handle_ws_proxy: the Sec-WebSocket-Protocol header of the request to the
\* backend.
upstream_header(list) == IF list = << >> THEN None ELSE Some(JoinWith(list, <<",", " ">>))

tty == <<"t","t","y">>
HeaderValues ==
    {tty, tty \o <<",", " ", "x">>, <<"x", ",">> \o tty, <<"x">>, <<" ">> \o tty \o <<",">>,
     <<"y", ",", " ">> \o tty}

\* The Sec-WebSocket-Protocol headers of a request: none, one or two.
ProtocolHeaders == {<< >>} \cup {<<v>> : v \in HeaderValues} \cup {<<v, w>> : v, w \in HeaderValues}

\* What the backend may answer to an offer: one of the offered protocols, or
\* none.
BackendChoices(header) ==
    {None} \cup (IF header.some
                 THEN {Some(ProtocolsOf(header.val)[i]) : i \in DOMAIN ProtocolsOf(header.val)}
                 ELSE {})

WsProxyInit == wp_out = [op |-> "none"]

\* proxy_handler for a WebSocket upgrade of a registered tunnel, and the
\* handle_ws_proxy task it spawns; negotiated: the backend's choice.
ProxyWs(values, negotiated) ==
    LET list == client_protocols(values)
        upgrade == [sec_websocket_protocol |-> IF values = << >> THEN None ELSE Some(values[1]),
                    protocol |-> None]
    IN  /\ negotiated \in BackendChoices(upstream_header(list))
        /\ wp_out' = [op |-> "ws",
                      values |-> values,
                      offered |-> list,
                      confirmed |-> confirm(upgrade, list).protocol,
                      upstream |-> upstream_header(list),
                      negotiated |-> negotiated]
        /\ UNCHANGED <<relayVars, coordVars, authVars, wsVars, tuiVars, srvVars, opVars, nameVars, regVars, winVars, secVars, fsVars>>

WsProxyNext ==
    \E values \in ProtocolHeaders :
        \E negotiated \in BackendChoices(upstream_header(client_protocols(values))) :
            ProxyWs(values, negotiated)

-----------------------------------------------------------------------------
(* The relay's WebSocket proxy: the claims. *)

\* C26: for a WebSocket upgrade through the relay, the subprotocols offered
\* to the backend are those the client offered, and the subprotocol the
\* relay confirms to the client is the one negotiated with the backend; for
\* a client that offers only tty, tty is sent to the backend and, when the
\* backend accepts it, tty is confirmed to the client.
C26_Subprotocols ==
    wp_out.op = "ws" =>
        /\ wp_out.offered # << >> =>
              /\ wp_out.upstream.some
              /\ ProtocolsOf(wp_out.upstream.val) = wp_out.offered
        /\ wp_out.offered = << >> => ~wp_out.upstream.some
        /\ wp_out.confirmed = wp_out.negotiated
        /\ wp_out.values = <<tty>> =>
              /\ wp_out.upstream = Some(tty)
              /\ wp_out.negotiated = Some(tty) => wp_out.confirmed = Some(tty)

-----------------------------------------------------------------------------
(* The subprocesses of a request (nomadflow-core/src/shell.rs) and the      *)
(* answer made of their results.  Here the outcome of every command is an   *)
(* input: it exits with 0, exits with another code, or passes its deadline. *)
(* A request runs its commands one after another; op_out keeps them in the  *)
(* order they were run, with the error of the service and the HTTP status.  *)

\* The deadline of shell::run and the one clone_repo passes, in seconds.
DEFAULT_TIMEOUT == 30
CLONE_TIMEOUT == 600

CommandOutcomes == {"ok", "failed", "timeout"}

\* shell::run_command: the CommandResult of a command that ended as outcome
\* (a command killed by a signal has no exit code).
run_command(command, outcome, timeout_secs) ==
    [command |-> command,
     outcome |-> outcome,
     timeout_secs |-> timeout_secs,
     return_code |-> CASE outcome = "ok" -> 0
                       [] outcome = "failed" -> 1
                       [] outcome = "signal" -> -1
                       [] outcome = "timeout" -> -1,
     stderr |-> CASE outcome = "ok" -> << >>
                  [] outcome = "failed" -> <<"stderr of", command>>
                  [] outcome = "signal" -> <<"stderr of", command>>
                  [] outcome = "timeout" -> <<"Command timed out", command>>]

\* shell::run
run(command, outcome) == run_command(command, outcome, DEFAULT_TIMEOUT)

\* CommandResult::success
success(result) == result.return_code = 0

\* NomadError, and the absence of one.
Err(kind, msg) == [some |-> TRUE, kind |-> kind, msg |-> msg]
NoError == [some |-> FALSE, kind |-> "none", msg |-> << >>]

\* What a service returns: the commands it ran, its error, and for a clone
\* the remote URL that the repository keeps.
Ran(cmds, err, remote) == [cmds |-> cmds, err |-> err, remote |-> remote]

\* The worktree-add variants of create_feature, as it writes them.
add_new_at_base == "git worktree add -b <branch> <wt> <base>"
add_existing == "git worktree add <wt> <branch>"
add_new_at_origin_base == "git worktree add -b <branch> <wt> origin/<base>"
add_new_at_HEAD == "git worktree add -b <branch> <wt> HEAD"
add_tracking == "git worktree add --track -b <branch> <wt> origin/<branch>"
fetch_all == "git fetch --all 2>/dev/null || true"

\* (mutant: HEAD is tried before origin/<base>)
create_feature_run_Mutant(mkdir_ok, exists, fetch, outs) ==
    LET r0 == run(fetch_all, fetch)
        r1 == run(add_new_at_base, outs[1])
        r2 == run(add_existing, outs[2])
        r3 == run(add_new_at_HEAD, outs[3])
        r4 == run(add_new_at_origin_base, outs[4])
    IN  IF ~mkdir_ok THEN Ran(<< >>, Err("Io", << >>), << >>)
        ELSE IF exists THEN Ran(<< >>, NoError, << >>)
        ELSE IF success(r1) THEN Ran(<<r0, r1>>, NoError, << >>)
        ELSE IF success(r2) THEN Ran(<<r0, r1, r2>>, NoError, << >>)
        ELSE IF success(r3) THEN Ran(<<r0, r1, r2, r3>>, NoError, << >>)
        ELSE IF success(r4) THEN Ran(<<r0, r1, r2, r3, r4>>, NoError, << >>)
        ELSE Ran(<<r0, r1, r2, r3, r4>>, Err("CommandFailed", r4.stderr), << >>)

\* GitService::create_feature as the commands it runs; exists: the derived
\* worktree directory is there already; outs: how each variant would end.
create_feature_run(mkdir_ok, exists, fetch, outs) ==
    LET r0 == run(fetch_all, fetch)
        r1 == run(add_new_at_base, outs[1])
        r2 == run(add_existing, outs[2])
        r3 == run(add_new_at_origin_base, outs[3])
        r4 == run(add_new_at_HEAD, outs[4])
    IN  IF ~mkdir_ok THEN Ran(<< >>, Err("Io", << >>), << >>)
        ELSE IF exists THEN Ran(<< >>, NoError, << >>)
        ELSE IF success(r1) THEN Ran(<<r0, r1>>, NoError, << >>)
        ELSE IF success(r2) THEN Ran(<<r0, r1, r2>>, NoError, << >>)
        ELSE IF success(r3) THEN Ran(<<r0, r1, r2, r3>>, NoError, << >>)
        ELSE IF success(r4) THEN Ran(<<r0, r1, r2, r3, r4>>, NoError, << >>)
        ELSE Ran(<<r0, r1, r2, r3, r4>>, Err("CommandFailed", r4.stderr), << >>)

\* GitService::attach_branch as the commands it runs.
attach_branch_run(mkdir_ok, outs) ==
    LET r1 == run(add_existing, outs[1])
        r2 == run(add_tracking, outs[2])
    IN  IF ~mkdir_ok THEN Ran(<< >>, Err("Io", << >>), << >>)
        ELSE IF success(r1) THEN Ran(<<r1>>, NoError, << >>)
        ELSE IF success(r2) THEN Ran(<<r1, r2>>, NoError, << >>)
        ELSE Ran(<<r1, r2>>, Err("CommandFailed", r2.stderr), << >>)

\* TmuxService::ensure_session as the commands it runs.
ensure_session_run(which, has, new) ==
    LET r1 == run("which tmux", which)
        r2 == run("tmux has-session", has)
        r3 == run("tmux new-session", new)
    IN  IF ~success(r1) THEN Ran(<<r1>>, Err("NotFound", <<"tmux is not installed or not in PATH">>), << >>)
        ELSE IF success(r2) THEN Ran(<<r1, r2>>, NoError, << >>)
        ELSE IF success(r3) THEN Ran(<<r1, r2, r3>>, NoError, << >>)
        ELSE Ran(<<r1, r2, r3>>, Err("CommandFailed", r3.stderr), << >>)

\* TmuxService::ensure_window for a window that is not in the session yet.
ensure_window_run(list, new, keys) ==
    LET r1 == run("tmux list-windows", list)
        r2 == run("tmux new-window", new)
        r3 == run("tmux send-keys", keys)
    IN  IF success(r2) THEN Ran(<<r1, r2, r3>>, NoError, << >>)
        ELSE Ran(<<r1, r2>>, Err("CommandFailed", r2.stderr), << >>)

https == <<"h","t","t","p","s",":","/","/">>
http == <<"h","t","t","p",":","/","/">>
oauth2 == <<"o","a","u","t","h","2",":">>
url_https == https \o <<"h","/","r">>
url_http == http \o <<"h","/","r">>
url_ssh == <<"g","i","t","@","h",":","r">>
tok == <<"t","0","k">>

\* inject_token
inject_token(url, token) ==
    IF StartsWith(url, https) THEN https \o oauth2 \o token \o <<"@">> \o StripPrefix(url, https)
    ELSE IF StartsWith(url, http) THEN http \o oauth2 \o token \o <<"@">> \o StripPrefix(url, http)
    ELSE url

\* GitService::clone_repo (no name given) as the commands it runs; remote:
\* the URL of origin in the clone's configuration afterwards.
clone_repo_run(url, token, exists, mkdir_ok, clone, set_url, rev_parse) ==
    LET clone_url == IF token.some THEN inject_token(url, token.val) ELSE url
        r1 == run_command("git clone <clone_url> <dest>", clone, CLONE_TIMEOUT)
        r2 == run("git remote set-url origin <url>", set_url)
        r3 == run("git rev-parse --abbrev-ref HEAD", rev_parse)
    IN  IF FileName(StripTrailingSlashes(url)) = << >>
        THEN Ran(<< >>, Err("Other", <<"Cannot determine repository name from URL">>), << >>)
        ELSE IF exists THEN Ran(<< >>, Err("AlreadyExists", << >>), << >>)
        ELSE IF ~mkdir_ok THEN Ran(<< >>, Err("Io", << >>), << >>)
        ELSE IF ~success(r1) THEN Ran(<<r1>>, Err("CommandFailed", r1.stderr), << >>)
        ELSE IF token.some
        THEN Ran(<<r1, r2, r3>>, NoError, IF success(r2) THEN url ELSE clone_url)
        ELSE Ran(<<r1, r3>>, NoError, url)

\* The answer of a handler: the commands of all the services it called, the
\* error it mapped and the status; 200 with no error.
Answered(endpoint, url, cmds, err, status, remote) ==
    [endpoint |-> endpoint, url |-> url, cmds |-> cmds, err |-> err, status |-> status,
     remote |-> remote]

OpInit == op_out = Answered("none", << >>, << >>, NoError, 0, << >>)

\* The worktree, then the session, then the window: the three services that
\* create-feature and attach-branch call, with the status of each one's
\* map_err.
WorktreeSessionWindow(endpoint, g, s, w) ==
    IF g.err.some THEN Answered(endpoint, << >>, g.cmds, g.err, 400, << >>)
    ELSE IF s.err.some THEN Answered(endpoint, << >>, g.cmds \o s.cmds, s.err, 500, << >>)
    ELSE IF w.err.some
    THEN Answered(endpoint, << >>, g.cmds \o s.cmds \o w.cmds, w.err, 500, << >>)
    ELSE Answered(endpoint, << >>, g.cmds \o s.cmds \o w.cmds, NoError, 200, << >>)

\* POST /api/create-feature
CreateFeatureRun(mkdir_ok, exists, fetch, outs, which, has, new, new_window) ==
    /\ op_out' = WorktreeSessionWindow("create-feature",
                     create_feature_run(mkdir_ok, exists, fetch, outs),
                     ensure_session_run(which, has, new),
                     ensure_window_run("ok", new_window, "ok"))
    /\ UNCHANGED <<relayVars, coordVars, authVars, wsVars, tuiVars, srvVars, wpVars, nameVars, regVars, winVars, secVars, fsVars>>

\* POST /api/attach-branch
AttachBranchRun(mkdir_ok, outs, which, has, new, new_window) ==
    /\ op_out' = WorktreeSessionWindow("attach-branch",
                     attach_branch_run(mkdir_ok, outs),
                     ensure_session_run(which, has, new),
                     ensure_window_run("ok", new_window, "ok"))
    /\ UNCHANGED <<relayVars, coordVars, authVars, wsVars, tuiVars, srvVars, wpVars, nameVars, regVars, winVars, secVars, fsVars>>

\* POST /api/clone-repo
CloneRepoRun(url, token, exists, mkdir_ok, clone, set_url, rev_parse) ==
    LET c == clone_repo_run(url, token, exists, mkdir_ok, clone, set_url, rev_parse)
    IN  /\ op_out' = IF ~c.err.some
                     THEN Answered("clone-repo", url, c.cmds, NoError, 200, c.remote)
                     ELSE IF c.err.kind = "AlreadyExists"
                     THEN Answered("clone-repo", url, c.cmds, c.err, 409, << >>)
                     ELSE Answered("clone-repo", url, c.cmds, c.err, 500, << >>)
        /\ UNCHANGED <<relayVars, coordVars, authVars, wsVars, tuiVars, srvVars, wpVars, nameVars, regVars, winVars, secVars, fsVars>>

CloneUrls == {url_https, url_http, url_ssh, << >>}
VariantOutcomes == [1..4 -> CommandOutcomes]
TmuxOutcomes == {"ok", "failed"}

OpNext ==
    \/ \E mkdir_ok, exists \in BOOLEAN : \E fetch \in {"ok", "timeout"} : \E outs \in VariantOutcomes :
       \E which, has, new, new_window \in TmuxOutcomes :
          CreateFeatureRun(mkdir_ok, exists, fetch, outs, which, has, new, new_window)
    \/ \E mkdir_ok \in BOOLEAN : \E outs \in [1..2 -> CommandOutcomes] :
       \E which, has, new, new_window \in TmuxOutcomes :
          AttachBranchRun(mkdir_ok, outs, which, has, new, new_window)
    \/ \E url \in CloneUrls : \E token \in {None, Some(tok)} : \E exists, mkdir_ok \in BOOLEAN :
       \E clone \in CommandOutcomes \cup {"signal"} : \E set_url \in CommandOutcomes :
       \E rev_parse \in TmuxOutcomes :
          CloneRepoRun(url, token, exists, mkdir_ok, clone, set_url, rev_parse)

-----------------------------------------------------------------------------
(* The subprocesses of a request: the claims. *)

\* The status the specification gives to an error kind.
StatusOfKind(kind) ==
    CASE kind = "AlreadyExists" -> 409
      [] kind = "NotFound" -> 404
      [] OTHER -> 500

\* C23: the HTTP status of an error answer is the one of the service's error
\* kind (AlreadyExists 409, NotFound 404, every other kind 500; a 400 is
\* bad input, which has no kind of its own), and two answers with the same
\* error kind have the same status, whatever their endpoints.
C23_StatusByKind ==
    /\ [](op_out.err.some => op_out.status = StatusOfKind(op_out.err.kind))
    /\ [][(op_out.err.some /\ op_out'.err.some /\ op_out.err.kind = op_out'.err.kind)
          => op_out.status = op_out'.status]_vars

\* C24: a command that passes its deadline is the last command of its
\* request, and the request fails with the error kind Timeout of that
\* deadline; its return code is -1 and no command that exited has it.
C24_TimeoutSurfaced ==
    \A i \in DOMAIN op_out.cmds :
        /\ op_out.cmds[i].outcome = "timeout"
           => /\ i = Len(op_out.cmds)
              /\ op_out.cmds[i].return_code = -1
              /\ op_out.err.some
              /\ op_out.err.kind = "Timeout"
              /\ op_out.err.msg = op_out.cmds[i].timeout_secs
        /\ op_out.cmds[i].outcome # "timeout" => op_out.cmds[i].return_code # -1

\* C25: when clone-repo answers 200, the remote URL that the clone keeps is
\* the URL of the request, without the token.
C25_TokenScrubbed ==
    (op_out.endpoint = "clone-repo" /\ op_out.status = 200) => op_out.remote = op_out.url

\* The worktree-add commands of an answer, in the order they were run.
IsVariant(r) ==
    r.command \in {add_new_at_base, add_existing, add_new_at_origin_base, add_new_at_HEAD}

VariantsRun(cmds) == SelectSeq(cmds, IsVariant)

VariantOrder == <<add_new_at_base, add_existing, add_new_at_origin_base, add_new_at_HEAD>>

\* C29: when the derived worktree directory does not exist, create_feature
\* runs the worktree-add variants in the order: new branch at <base>,
\* existing branch, new branch at origin/<base>, new branch at HEAD; every
\* variant but the last one run has failed, and CommandFailed with the
\* stderr of the fourth is returned exactly when all four failed.
C29_VariantOrder ==
    op_out.endpoint = "create-feature" =>
        LET v == VariantsRun(op_out.cmds)
        IN  /\ Len(v) <= 4
            /\ \A i \in DOMAIN v : v[i].command = VariantOrder[i]
            /\ \A i \in DOMAIN v : i < Len(v) => v[i].return_code # 0
            /\ (op_out.err.some /\ op_out.err.kind = "CommandFailed" /\ op_out.status = 400)
               <=> (Len(v) = 4 /\ v[4].return_code # 0)
            /\ (op_out.err.some /\ op_out.status = 400 /\ op_out.err.kind = "CommandFailed")
               => op_out.err.msg = v[4].stderr
            /\ (v # << >> /\ ~(op_out.err.some /\ op_out.status = 400))
               => v[Len(v)].return_code = 0

\* create_feature has run all four variants, the first three failed or
\* passed their deadline and the fourth succeeded.
C29_Witness ==
    /\ op_out.endpoint = "create-feature"
    /\ op_out.status = 200
    /\ Len(VariantsRun(op_out.cmds)) = 4
    /\ VariantsRun(op_out.cmds)[3].command = add_new_at_origin_base
    /\ VariantsRun(op_out.cmds)[4].return_code = 0

-----------------------------------------------------------------------------
(* The server's run (nomadflow-server/src/lib.rs serve, tunnel.rs,          *)
(* nomadflow-core/src/services/ttyd.rs).  serve is one task that moves from *)
(* await to await; requests, bridges and the tunnel listener are tasks of   *)
(* their own.  A WebSocket upgrade hands the connection to a spawned task,  *)
(* so the graceful shutdown of axum::serve waits for the HTTP requests in   *)
(* flight and not for the bridges.                                          *)

\* TtydService::start: what became of the daemon.
TtydOutcomes == {"spawned", "port_in_use", "not_installed", "spawn_failed"}

\* The steps of start_tunnel and how each may end.
TunnelOutcomes ==
    {"connect_timeout", "connect_failed", "register_transport", "register_status",
     "register_body", "registered"}

\* (mutant: the listener task is spawned before the relay's answer is read)
start_tunnel_Mutant(outcome) ==
    [ok |-> outcome = "registered",
     spawned |-> outcome \in {"register_status", "register_body", "registered"}]

\* start_tunnel: Ok(TunnelInfo) or Err, and whether the listener task was
\* spawned.
start_tunnel(outcome) ==
    [ok |-> outcome = "registered", spawned |-> outcome = "registered"]

\* TtydService::stop
stop(ttyd) == IF ttyd = "running" THEN "killed" ELSE ttyd

\* The length of the secret that serve generates.
SECRET_LENGTH == 32

ConfiguredSecrets == {<< >>, s3cret}

\* Two of the results of sample_iter(Alphanumeric).take(32).
GeneratedSecrets == {Repeat("a", SECRET_LENGTH), Repeat("Z", SECRET_LENGTH - 1) \o <<"7">>}

\* (mutant: no secret is generated)
effective_secret_Mutant(public, configured, generated) == configured

\* serve, step 0: the secret of the run
effective_secret(public, configured, generated) ==
    IF public /\ configured = << >> THEN generated ELSE configured

SecretInit ==
    /\ sv_configured = << >>
    /\ sv_secret = << >>
    /\ sv_ttyd_secret = None
    /\ sv_state_secret = None

ServeInit ==
    /\ sv_pc = "start"
    /\ sv_public = FALSE
    /\ sv_cancelled = FALSE
    /\ sv_ttyd = "none"
    /\ sv_tunnel = "none"
    /\ sv_url = "none"
    /\ sv_inflight = 0
    /\ sv_bridges = 0

\* serve, steps 0 to 2: the secret, the tmux session, the terminal daemon.
ServeSetup(public, ttyd_outcome) ==
    /\ sv_pc = "start"
    /\ sv_public' = public
    /\ sv_ttyd' = IF ttyd_outcome = "spawned" THEN "running"
                  ELSE IF ttyd_outcome = "port_in_use" THEN "foreign"
                  ELSE "none"
    /\ sv_pc' = "bind"
    /\ \E configured \in ConfiguredSecrets : \E generated \in GeneratedSecrets :
          /\ sv_configured' = configured
          /\ sv_secret' = effective_secret(public, configured, generated)
          /\ sv_ttyd_secret' = Some(effective_secret(public, configured, generated))
    /\ UNCHANGED sv_state_secret
    /\ UNCHANGED <<sv_cancelled, sv_tunnel, sv_url, sv_inflight, sv_bridges>>
    /\ UNCHANGED <<relayVars, coordVars, authVars, wsVars, tuiVars, opVars, wpVars, nameVars, regVars, winVars, fsVars>>

\* serve, step 3: AppState::new(settings.clone()), build_router, and
\* TcpListener::bind(&addr).await?
ServeBind(bound) ==
    /\ sv_pc = "bind"
    /\ sv_state_secret' = Some(sv_secret)
    /\ sv_pc' = IF bound THEN "tunnel" ELSE "returned_err"
    /\ UNCHANGED <<sv_configured, sv_secret, sv_ttyd_secret>>
    /\ UNCHANGED <<sv_public, sv_cancelled, sv_ttyd, sv_tunnel, sv_url, sv_inflight, sv_bridges>>
    /\ UNCHANGED <<relayVars, coordVars, authVars, wsVars, tuiVars, opVars, wpVars, nameVars, regVars, winVars, fsVars>>

\* serve, steps 4 and 5: the tunnel if --public, and the connect URL.
ServeTunnel(outcome) ==
    LET t == start_tunnel(outcome)
    IN  /\ sv_pc = "tunnel"
        /\ IF sv_public
           THEN /\ sv_url' = IF t.ok THEN "public" ELSE "lan"
                /\ sv_tunnel' = IF t.spawned THEN "listening" ELSE "none"
           ELSE /\ sv_url' = "lan"
                /\ sv_tunnel' = "none"
        /\ sv_pc' = "serving"
        /\ UNCHANGED <<sv_public, sv_cancelled, sv_ttyd, sv_inflight, sv_bridges>>
        /\ UNCHANGED <<relayVars, coordVars, authVars, wsVars, tuiVars, opVars, wpVars, nameVars, regVars, winVars, secVars, fsVars>>

\* The signal handler, or the caller, cancels the shutdown token.
Cancel ==
    /\ ~sv_cancelled
    /\ sv_cancelled' = TRUE
    /\ UNCHANGED <<sv_pc, sv_public, sv_ttyd, sv_tunnel, sv_url, sv_inflight, sv_bridges>>
    /\ UNCHANGED <<relayVars, coordVars, authVars, wsVars, tuiVars, opVars, wpVars, nameVars, regVars, winVars, secVars, fsVars>>

\* axum::serve accepts a request; none is accepted once the token is
\* cancelled.
Accept ==
    /\ sv_pc = "serving"
    /\ ~sv_cancelled
    /\ sv_inflight < MaxInflight
    /\ sv_inflight' = sv_inflight + 1
    /\ UNCHANGED <<sv_pc, sv_public, sv_cancelled, sv_ttyd, sv_tunnel, sv_url, sv_bridges>>
    /\ UNCHANGED <<relayVars, coordVars, authVars, wsVars, tuiVars, opVars, wpVars, nameVars, regVars, winVars, secVars, fsVars>>

\* A request in flight is answered; upgrade: it was a terminal WebSocket
\* request, and its bridge now runs as a task of its own.
Answer(upgrade) ==
    /\ sv_inflight > 0
    /\ sv_inflight' = sv_inflight - 1
    /\ IF upgrade
       THEN /\ sv_ttyd \in {"running", "foreign"}
            /\ sv_bridges < MaxBridges
            /\ sv_bridges' = sv_bridges + 1
       ELSE UNCHANGED sv_bridges
    /\ UNCHANGED <<sv_pc, sv_public, sv_cancelled, sv_ttyd, sv_tunnel, sv_url>>
    /\ UNCHANGED <<relayVars, coordVars, authVars, wsVars, tuiVars, opVars, wpVars, nameVars, regVars, winVars, secVars, fsVars>>

\* A bridge returns: one of its two connections has ended.
BridgeCloses ==
    /\ sv_bridges > 0
    /\ sv_bridges' = sv_bridges - 1
    /\ UNCHANGED <<sv_pc, sv_public, sv_cancelled, sv_ttyd, sv_tunnel, sv_url, sv_inflight>>
    /\ UNCHANGED <<relayVars, coordVars, authVars, wsVars, tuiVars, opVars, wpVars, nameVars, regVars, winVars, secVars, fsVars>>

\* axum::serve(..).with_graceful_shutdown(..) returns: the token is
\* cancelled and no request is in flight.
ServeDrained ==
    /\ sv_pc = "serving"
    /\ sv_cancelled
    /\ sv_inflight = 0
    /\ sv_pc' = "stopping"
    /\ UNCHANGED <<sv_public, sv_cancelled, sv_ttyd, sv_tunnel, sv_url, sv_inflight, sv_bridges>>
    /\ UNCHANGED <<relayVars, coordVars, authVars, wsVars, tuiVars, opVars, wpVars, nameVars, regVars, winVars, secVars, fsVars>>

\* serve, the end: ttyd.stop().await; Ok(())
ServeStop ==
    /\ sv_pc = "stopping"
    /\ sv_ttyd' = stop(sv_ttyd)
    /\ sv_pc' = "returned_ok"
    /\ UNCHANGED <<sv_public, sv_cancelled, sv_tunnel, sv_url, sv_inflight, sv_bridges>>
    /\ UNCHANGED <<relayVars, coordVars, authVars, wsVars, tuiVars, opVars, wpVars, nameVars, regVars, winVars, secVars, fsVars>>

\* The tunnel listener task returns from its select!: the token is
\* cancelled, or client.listen() has ended (closed).
TunnelExits(closed) ==
    /\ sv_tunnel = "listening"
    /\ sv_cancelled \/ closed
    /\ sv_tunnel' = "exited"
    /\ UNCHANGED <<sv_pc, sv_public, sv_cancelled, sv_ttyd, sv_url, sv_inflight, sv_bridges>>
    /\ UNCHANGED <<relayVars, coordVars, authVars, wsVars, tuiVars, opVars, wpVars, nameVars, regVars, winVars, secVars, fsVars>>

ServeStep ==
    \/ \E public \in BOOLEAN : \E ttyd_outcome \in TtydOutcomes : ServeSetup(public, ttyd_outcome)
    \/ \E bound \in BOOLEAN : ServeBind(bound)
    \/ \E outcome \in TunnelOutcomes : ServeTunnel(outcome)
    \/ ServeDrained
    \/ ServeStop

ServeNext ==
    \/ ServeStep
    \/ Cancel
    \/ Accept
    \/ \E upgrade \in BOOLEAN : Answer(upgrade)
    \/ BridgeCloses
    \/ \E closed \in BOOLEAN : TunnelExits(closed)

-----------------------------------------------------------------------------
(* The server's run: the claims. *)

\* C21: after the shutdown token is cancelled, serve eventually returns and
\* the terminal daemon it spawned is eventually killed, also when a bridge is
\* open at the cancellation; the daemon is killed only once the graceful
\* shutdown has completed; and the tunnel listener task exits.
C21_Shutdown ==
    /\ sv_cancelled ~> sv_pc \in {"returned_ok", "returned_err"}
    /\ (sv_cancelled /\ sv_ttyd = "running") ~> sv_ttyd = "killed"
    /\ (sv_cancelled /\ sv_tunnel = "listening") ~> sv_tunnel = "exited"
    /\ [][(sv_ttyd = "running" /\ sv_ttyd' = "killed") => sv_pc = "stopping"]_vars

\* C22: if start_tunnel fails at any step, serve does not return: it takes
\* the LAN connect URL and serves HTTP on the listener it has bound; the
\* tunnel listener task runs only if the registration succeeded.
C22_TunnelFallback ==
    /\ [][\A outcome \in TunnelOutcomes \ {"registered"} :
            (sv_public /\ ServeTunnel(outcome))
            => /\ sv_pc' = "serving"
               /\ sv_url' = "lan"
               /\ sv_tunnel' = "none"]_vars
    /\ [](sv_tunnel # "none" => sv_url = "public")

\* A public server whose registration was refused is serving a request on
\* the LAN URL with no tunnel listener.
C22_Witness ==
    /\ sv_public
    /\ sv_pc = "serving"
    /\ sv_url = "lan"
    /\ sv_tunnel = "none"
    /\ sv_inflight > 0

-----------------------------------------------------------------------------
(* Worktree names: successive calls of derive_worktree_name on one
   directory, each followed by the creation of the directory it named. *)

MaxCalls == 4

b_slash == <<"x","/">>
b_dot == <<"x","/",".">>
b_a_b == <<"a"," ","b">>
n_login_3 == <<"l","o","g","i","n","-","3">>

DeriveBranches == {b_feature_login, b_fix_login, n_login, b_slash, b_dot, b_a_b}

\* Entries that something else than these calls puts in the directory.
ForeignEntries == {n_login_2, n_login_3, <<"a","-","b">>}

NameInit ==
    /\ wt_entries = {}
    /\ wt_names = << >>
    /\ wt_out = [op |-> "none"]

\* attach_branch / create_feature: the name is derived, then git creates
\* the directory of that name.
DeriveAndCreate(branch_name) ==
    LET wt_name == derive_worktree_name(branch_name, wt_entries)
    IN  /\ Len(wt_names) < MaxCalls
        /\ wt_out' = [op |-> "derive", branch_name |-> branch_name,
                      entries |-> wt_entries, name |-> wt_name]
        /\ wt_names' = Append(wt_names, wt_name)
        /\ wt_entries' = wt_entries \cup {wt_name}
        /\ UNCHANGED <<relayVars, coordVars, authVars, wsVars, tuiVars, srvVars, opVars, wpVars, regVars, winVars, secVars, fsVars>>

\* Another entry appears in the directory.
Mkdir(name) ==
    /\ name \notin wt_entries
    /\ wt_entries' = wt_entries \cup {name}
    /\ wt_out' = [op |-> "mkdir", name |-> name]
    /\ UNCHANGED wt_names
    /\ UNCHANGED <<relayVars, coordVars, authVars, wsVars, tuiVars, srvVars, opVars, wpVars, regVars, winVars, secVars, fsVars>>

NameNext ==
    \/ \E b \in DeriveBranches : DeriveAndCreate(b)
    \/ \E name \in ForeignEntries : Mkdir(name)

\* base-k
Suffixed(base, k) == base \o <<"-">> \o Decimal(k)

\* The name is base, or base-k for the smallest k >= 2 that `taken` leaves.
FirstFree(name, base, taken) ==
    IF base \notin taken THEN name = base
    ELSE \E k \in 2..(MaxCalls + Cardinality(ForeignEntries) + 2) :
            /\ name = Suffixed(base, k)
            /\ Suffixed(base, k) \notin taken
            /\ \A j \in 2..(k - 1) : Suffixed(base, j) \in taken

PairwiseDistinct(names) ==
    \A i, j \in DOMAIN names : i # j => names[i] # names[j]

\* C28 as stated: the call returns base, the sanitized last segment of the
\* branch, if the directory has no entry base, and else base-k for the
\* smallest k >= 2 without an entry base-k; the name is no entry of the
\* directory, and successive calls return pairwise distinct names.
C28_AsStated ==
    wt_out.op = "derive" =>
        /\ FirstFree(wt_out.name, sanitize_name(LastSegment(wt_out.branch_name)),
                     wt_out.entries)
        /\ wt_out.name \notin wt_out.entries
        /\ PairwiseDistinct(wt_names)

\* C28, amended: as stated, where the base counts as taken also when it is
\* empty, "." or ".." (the branch ends in "/", "/." or "/.."): such a base
\* names the directory itself or its parent, and the call returns base-k.
C28_DerivedName ==
    wt_out.op = "derive" =>
        /\ FirstFree(wt_out.name, sanitize_name(LastSegment(wt_out.branch_name)),
                     wt_out.entries \cup {<< >>, <<".">>, <<".", ".">>})
        /\ wt_out.name \notin wt_out.entries
        /\ wt_out.name \notin {<< >>, <<".">>, <<".", ".">>}
        /\ PairwiseDistinct(wt_names)

\* Three calls for branches of base login returned login, login-2, login-3.
C28_Witness ==
    /\ wt_out.op = "derive"
    /\ wt_out.branch_name = b_fix_login
    /\ wt_names = <<n_login, n_login_2, n_login_3>>

-----------------------------------------------------------------------------
(* Concurrent registrations: register runs on the worker threads of the
   runtime, one call per thread at a time; the calls share the two maps and
   take no lock but the one of each map operation. *)

MaxThreads == 2
MaxAttempts == 4

Threads == 1..MaxThreads

sub_abd == <<"a","b","d">>

ConcurrentRequests ==
    {RegisterRequest(IP1, 1024, GoodSecret, o) : o \in {None, Some(sub_abc), Some(sub_abd)}}
    \cup {RegisterRequest(IP1, 80, GoodSecret, None),
          RegisterRequest(IP2, 9000, GoodSecret, Some(sub_abc))}

RegInit == rg_threads = [th \in Threads |-> [pc |-> "idle"]]

\* The call returns: its answer is recorded and the thread is free.
RegisterReturns(th, req, status, subdomain) ==
    /\ rg_threads' = [rg_threads EXCEPT ![th] = [pc |-> "idle"]]
    /\ relay_out' = [op |-> "register", req |-> req, status |-> status,
                     subdomain |-> subdomain]

RegFrame ==
    /\ UNCHANGED <<relay_secret, now>>
    /\ UNCHANGED <<coordVars, authVars, wsVars, tuiVars, srvVars, opVars, wpVars, nameVars, winVars, secVars, fsVars>>

\* register, to the count of the active tunnels of the client
RegisterCount(th, req) ==
    /\ rg_threads[th].pc = "idle"
    /\ IF PrivilegedPort(req.port) THEN RegisterReturns(th, req, 400, << >>)
       ELSE IF relay_secret # "" /\ req.secret # relay_secret
       THEN RegisterReturns(th, req, 401, << >>)
       ELSE IF TooManyTunnels(ActiveCount(tunnels, req.client_ip))
       THEN RegisterReturns(th, req, 429, << >>)
       ELSE /\ rg_threads' = [rg_threads EXCEPT ![th] = [pc |-> "counted", req |-> req]]
            /\ UNCHANGED relay_out
    /\ UNCHANGED <<tunnels, rate_limits>>
    /\ RegFrame

\* register: the recent registrations of the client are pruned and counted
RegisterRecent(th) ==
    LET req == rg_threads[th].req
        ip == req.client_ip
        pruned == Put(rate_limits, ip, RetainRecent(RateEntry(rate_limits, ip), now))
    IN  /\ rg_threads[th].pc = "counted"
        /\ rate_limits' = pruned
        /\ IF TooManyRegistrations(Len(pruned[ip]))
           THEN RegisterReturns(th, req, 429, << >>)
           ELSE /\ rg_threads' = [rg_threads EXCEPT ![th].pc = "limited"]
                /\ UNCHANGED relay_out
        /\ UNCHANGED tunnels
        /\ RegFrame

\* register: this registration is recorded
RegisterRecord(th) ==
    LET ip == rg_threads[th].req.client_ip
    IN  /\ rg_threads[th].pc = "limited"
        /\ rate_limits' = Put(rate_limits, ip, Append(RateEntry(rate_limits, ip), now))
        /\ rg_threads' = [rg_threads EXCEPT ![th].pc = "recorded"]
        /\ UNCHANGED <<tunnels, relay_out>>
        /\ RegFrame

\* register: the subdomain is resolved
RegisterResolve(th, generated) ==
    LET req == rg_threads[th].req
    IN  /\ rg_threads[th].pc = "recorded"
        /\ IF req.subdomain.some /\ ~ValidSubdomain(req.subdomain.val)
           THEN RegisterReturns(th, req, 400, << >>)
           ELSE IF req.subdomain.some /\ TakenByOther(tunnels, req.subdomain.val, req.client_ip)
           THEN RegisterReturns(th, req, 409, << >>)
           ELSE /\ rg_threads' =
                      [rg_threads EXCEPT ![th] =
                          [pc |-> "resolved", req |-> req,
                           subdomain |-> IF req.subdomain.some THEN req.subdomain.val
                                         ELSE generated]]
                /\ UNCHANGED relay_out
        /\ UNCHANGED <<tunnels, rate_limits>>
        /\ RegFrame

\* register: the entry is inserted and the call answers
RegisterInsert(th) ==
    LET req == rg_threads[th].req
        subdomain == rg_threads[th].subdomain
    IN  /\ rg_threads[th].pc = "resolved"
        /\ tunnels' = Put(tunnels, subdomain, TunnelEntry(req.port, now, req.client_ip))
        /\ RegisterReturns(th, req, 200, subdomain)
        /\ UNCHANGED rate_limits
        /\ RegFrame

RegNext ==
    \E th \in Threads :
        \/ \E req \in ConcurrentRequests :
              /\ Len(RateEntry(rate_limits, req.client_ip)) < MaxAttempts
              /\ RegisterCount(th, req)
        \/ RegisterRecent(th)
        \/ RegisterRecord(th)
        \/ \E generated \in GeneratedSubdomains : RegisterResolve(th, generated)
        \/ RegisterInsert(th)

\* Registrations of one client for the subdomain it owns: the tunnel map
\* keeps one entry while the list of its registrations grows.
RegRateNext ==
    \E th \in Threads :
        \/ RegisterCount(th, RegisterRequest(IP1, 1024, GoodSecret, Some(sub_abc)))
        \/ RegisterRecent(th)
        \/ RegisterRecord(th)
        \/ \E generated \in {<< >>} : RegisterResolve(th, generated)
        \/ RegisterInsert(th)

\* C30: whatever the interleaving of the registrations of one source IP,
\* that IP never owns more than MAX_TUNNELS_PER_IP entries of the tunnel map.
C30_ConcurrentQuota ==
    \A ip \in IPs : ActiveCount(tunnels, ip) <= MAX_TUNNELS_PER_IP

-----------------------------------------------------------------------------
(* Concurrent feature requests: each request is a task of the runtime; its
   tmux calls are subprocesses it awaits one after the other, and the tasks
   share the session without a lock. *)

MaxTasks == 2

Tasks == 1..MaxTasks

FeatureEndpoints == {"create-feature", "attach-branch", "switch-feature"}

TargetWindows == {window_name(RepoPath, n_login), window_name(RepoPath, b_dev)}

WinInit == ew_tasks = [k \in Tasks |-> [pc |-> "idle"]]

WinFrame ==
    /\ UNCHANGED <<dirs, worktrees, branches, coord_out>>
    /\ UNCHANGED <<relayVars, authVars, wsVars, tuiVars, srvVars, opVars, wpVars, nameVars, regVars, secVars, fsVars>>

\* The handler, after its git calls: ensure_session
TaskEnsureSession(k, endpoint, name) ==
    LET s == ensure_session(Tmux(session, windows), TRUE)
    IN  /\ ew_tasks[k].pc = "idle"
        /\ Len(windows) < MaxWindows
        /\ session' = s.tmux.session
        /\ windows' = s.tmux.windows
        /\ ew_tasks' = [ew_tasks EXCEPT ![k] =
               [pc |-> IF endpoint = "switch-feature" THEN "switch_to_window"
                       ELSE "ensure_window",
                endpoint |-> endpoint, name |-> name]]
        /\ WinFrame

\* switch_to_window: window_exists, is_shell_idle
TaskWindowExisted(k) ==
    /\ ew_tasks[k].pc = "switch_to_window"
    /\ ew_tasks' = [ew_tasks EXCEPT ![k].pc = "ensure_window"]
    /\ UNCHANGED <<session, windows>>
    /\ WinFrame

\* ensure_window: window_exists
TaskWindowExists(k) ==
    /\ ew_tasks[k].pc = "ensure_window"
    /\ ew_tasks' = [ew_tasks EXCEPT ![k].pc =
           IF window_exists(Tmux(session, windows), ew_tasks[k].name, TRUE)
           THEN "answer" ELSE "create_window"]
    /\ UNCHANGED <<session, windows>>
    /\ WinFrame

\* ensure_window: create_window
TaskCreateWindow(k) ==
    LET c == create_window(Tmux(session, windows), ew_tasks[k].name, TRUE)
    IN  /\ ew_tasks[k].pc = "create_window"
        /\ session' = c.tmux.session
        /\ windows' = c.tmux.windows
        /\ ew_tasks' = [ew_tasks EXCEPT ![k].pc = "answer"]
        /\ WinFrame

\* The rest of the handler: send_keys, select_window, the response
TaskAnswer(k) ==
    /\ ew_tasks[k].pc = "answer"
    /\ ew_tasks' = [ew_tasks EXCEPT ![k] = [pc |-> "idle"]]
    /\ UNCHANGED <<session, windows>>
    /\ WinFrame

WinNext ==
    \E k \in Tasks :
        \/ \E endpoint \in FeatureEndpoints : \E name \in TargetWindows :
              TaskEnsureSession(k, endpoint, name)
        \/ TaskWindowExisted(k)
        \/ TaskWindowExists(k)
        \/ TaskCreateWindow(k)
        \/ TaskAnswer(k)

\* C33: whatever the interleaving of create-feature, attach-branch and
\* switch-feature requests, the session never holds two windows of one name.
C33_UniqueWindows ==
    \A i, j \in DOMAIN windows : i # j => windows[i].name # windows[j].name

-----------------------------------------------------------------------------
(* delete-feature and the file system: the directories under <base>, with
   two repositories and their worktrees; the featureName is joined to the
   worktrees directory of the repository as it was received. *)

\* The components of a path.
Components(path) == SelectSeq(SplitOn(path, "/"), LAMBDA c : c # << >>)

OtherRepoPath == <<"/","b","/","r","e","p","o","s","/","o","t","h","e","r">>
OtherWorktreesDir == Join(WorktreesDir, FileName(OtherRepoPath))

\* <base> and its repos directory are not removed in this model.
BaseDirs == {<<<<"b">>>>, Components(<<"/","b","/","r","e","p","o","s">>)}

AllDirs ==
    {Components(RepoPath), Components(OtherRepoPath), Components(WorktreesDir),
     Components(RepoWorktreesDir), Components(Join(RepoWorktreesDir, n_login)),
     Components(OtherWorktreesDir), Components(Join(OtherWorktreesDir, <<"x">>))}

\* The worktrees git has registered for the repository of the request.
LinkedWorktrees == {Components(Join(RepoWorktreesDir, n_login))}

\* The path the file system resolves `path` to by walking its components
\* from the root: None if a directory on the way does not exist.
RECURSIVE Walk(_, _, _)
Walk(fs, cs, at) ==
    IF at # << >> /\ at \notin fs \cup BaseDirs THEN None
    ELSE IF cs = << >> THEN Some(at)
    ELSE IF Head(cs) = <<".">> THEN Walk(fs, Tail(cs), at)
    ELSE IF Head(cs) = <<".", ".">>
    THEN Walk(fs, Tail(cs), IF at = << >> THEN at ELSE SubSeq(at, 1, Len(at) - 1))
    ELSE Walk(fs, Tail(cs), Append(at, Head(cs)))

\* remove_dir_all: the directory and everything below it
remove_dir_all(fs, dir) ==
    {d \in fs : ~(Len(d) >= Len(dir) /\ SubSeq(d, 1, Len(dir)) = dir)}

\* GitService::delete_feature on the file system; remove_ok: `git worktree
\* remove` ends well, which it can only do for a linked worktree of the
\* repository.
delete_feature_fs(fs, feature_name, remove_ok) ==
    LET worktree_path == Join(Join(WorktreesDir, FileName(RepoPath)), feature_name)
        target == Walk(fs, Components(worktree_path), << >>)
        linked == target.some /\ target.val \in LinkedWorktrees
        cs == Components(worktree_path)
        \* rmdir refuses a path whose last component is "." or "..": the
        \* content has gone by then, the directory itself stays
        dotted == cs[Len(cs)] \in {<<".">>, <<".", ".">>}
    IN  IF remove_ok /\ linked THEN remove_dir_all(fs, target.val)
        ELSE IF target.some /\ target.val \notin BaseDirs /\ target.val # << >>
        THEN remove_dir_all(fs, target.val) \cup (IF dotted THEN {target.val} ELSE {})
        ELSE fs

f_other_x == <<".",".","/","o","t","h","e","r","/","x">>
f_repo == <<".",".","/",".",".","/","r","e","p","o","s","/","d","e","m","o">>
f_absolute == OtherRepoPath
f_up == <<".",".">>

TraversalNames == {n_login, b_dev, b_main, f_other_x, f_repo, f_absolute, f_up}

FsInit ==
    /\ fs_dirs = AllDirs
    /\ fs_out = [op |-> "none"]

\* POST /api/delete-feature: the feature listed under this name is looked
\* up and refused if it is the main worktree (listed under its branch), the
\* window is killed, and delete_feature runs.
DeleteFeatureFs(feature_name, remove_ok) ==
    /\ IF feature_name = HeadBranch
       THEN /\ fs_out' = [op |-> "delete", feature_name |-> feature_name, status |-> 400]
            /\ UNCHANGED fs_dirs
       ELSE /\ fs_dirs' = delete_feature_fs(fs_dirs, feature_name, remove_ok)
            /\ fs_out' = [op |-> "delete", feature_name |-> feature_name, status |-> 200]
    /\ UNCHANGED <<relayVars, coordVars, authVars, wsVars, tuiVars, srvVars, opVars, wpVars, nameVars, regVars, winVars, secVars>>

\* A directory is made again (a clone, a new worktree) in a directory that
\* exists.
MakeDir(dir) ==
    /\ dir \notin fs_dirs
    /\ SubSeq(dir, 1, Len(dir) - 1) \in fs_dirs \cup BaseDirs
    /\ fs_dirs' = fs_dirs \cup {dir}
    /\ fs_out' = [op |-> "mkdir", dir |-> dir]
    /\ UNCHANGED <<relayVars, coordVars, authVars, wsVars, tuiVars, srvVars, opVars, wpVars, nameVars, regVars, winVars, secVars>>

FsNext ==
    \/ \E f \in TraversalNames : \E remove_ok \in BOOLEAN : DeleteFeatureFs(f, remove_ok)
    \/ \E dir \in AllDirs : MakeDir(dir)

\* C38: whatever the featureName, a delete-feature request removes no
\* directory but those below <base>/worktrees/<repo-name>/.
C38_RemovesOnlyOwnWorktrees ==
    [][fs_out'.op = "delete" =>
          \A d \in fs_dirs \ fs_dirs' :
              /\ Len(d) > Len(Components(RepoWorktreesDir))
              /\ SubSeq(d, 1, Len(Components(RepoWorktreesDir))) = Components(RepoWorktreesDir)]_vars

\* C31: whatever the interleaving of the registrations of one source IP,
\* the list of that IP in the rate-limit map never holds more than
\* MAX_REGISTRATIONS_PER_HOUR timestamps of the last hour.
C31_ConcurrentRate ==
    \A ip \in IPs :
        Len(RetainRecent(RateEntry(rate_limits, ip), now)) <= MAX_REGISTRATIONS_PER_HOUR

\* C35: in a run of serve with public = true, once the secret is settled it
\* is not empty; if none was configured it is 32 alphanumeric characters;
\* and the terminal daemon's service and the state behind the middleware and
\* the WebSocket token check, once made, hold that same value.
C35_PublicSecret ==
    (sv_public /\ sv_pc # "start") =>
        /\ sv_secret # << >>
        /\ sv_configured = << >> =>
              /\ Len(sv_secret) = SECRET_LENGTH
              /\ \A i \in DOMAIN sv_secret : IsAsciiAlphanumeric(sv_secret[i])
        /\ sv_configured # << >> => sv_secret = sv_configured
        /\ sv_ttyd_secret = Some(sv_secret)
        /\ sv_state_secret.some => sv_state_secret = Some(sv_secret)
        /\ sv_pc \notin {"bind"} => sv_state_secret.some

\* A public run without a configured secret serves with a generated one,
\* and its daemon was spawned.
C35_Witness ==
    /\ sv_public
    /\ sv_configured = << >>
    /\ sv_pc = "serving"
    /\ sv_ttyd = "running"
    /\ sv_state_secret = Some(Repeat("a", SECRET_LENGTH))
    /\ sv_ttyd_secret = sv_state_secret

\* C34: whenever serve has returned, by whatever path, the terminal daemon
\* it spawned has been stopped; and a daemon that serve did not spawn (the
\* port was in use already) is never killed.
C34_DaemonStopped ==
    /\ [](sv_pc \in {"returned_ok", "returned_err"} => sv_ttyd # "running")
    /\ [][sv_ttyd = "foreign" => sv_ttyd' = "foreign"]_vars

-----------------------------------------------------------------------------
(* The specifications: each component acts while the others rest. *)

\* The server is configured with the secret; the relay and the coordinator
\* start empty.
Init == RelayInit /\ CoordInit /\ AuthQuiet /\ BridgeInit /\ TuiInit /\ ServeInit /\ OpInit /\ WsProxyInit /\ NameInit /\ RegInit /\ WinInit /\ SecretInit /\ FsInit

\* As Init, with the server's secret either configured or left empty.
InitAuth == RelayInit /\ CoordInit /\ AuthInit /\ BridgeInit /\ TuiInit /\ ServeInit /\ OpInit /\ WsProxyInit /\ NameInit /\ RegInit /\ WinInit /\ SecretInit /\ FsInit

SpecRelay == Init /\ [][RelayNext]_vars

SpecRate == Init /\ [][RateNext]_vars

SpecIdle == Init /\ [][IdleNext]_vars

\* The cleanup task loops for as long as the relay runs, and time passes.
SpecIdleFair == SpecIdle /\ WF_vars(Cleanup) /\ WF_vars(Tick)

SpecCoord == Init /\ [][CoordNext]_vars

SpecWorktrees == Init /\ [][WorktreesNext]_vars

SpecSwitch == Init /\ [][SwitchNext]_vars

SpecAuth == InitAuth /\ [][AuthNext]_vars

SpecAuthState == Init /\ [][AuthStateNext]_vars

SpecNames == Init /\ [][NameNext]_vars

SpecRegister == Init /\ [][RegNext]_vars

SpecRegisterRate == Init /\ [][RegRateNext]_vars

SpecWindows == Init /\ [][WinNext]_vars

SpecFs == Init /\ [][FsNext]_vars

SpecBridge == Init /\ [][BridgeNext]_vars

SpecTui == Init /\ [][TuiNext]_vars

SpecNav == Init /\ [][NavNext]_vars

SpecEscape == Init /\ [][EscapeNext]_vars

SpecWsProxy == Init /\ [][WsProxyNext]_vars

SpecOps == Init /\ [][OpNext]_vars

SpecServe == Init /\ [][ServeNext]_vars

\* serve and the tasks the runtime schedules all make progress: every
\* subprocess and every request of the setup has a deadline, and a request
\* in flight is answered.
SpecServeFair ==
    /\ SpecServe
    /\ WF_vars(ServeStep)
    /\ WF_vars(\E upgrade \in BOOLEAN : Answer(upgrade))
    /\ WF_vars(TunnelExits(FALSE))

=============================================================================
